---- MODULE Spec2Model ----
(***************************************************************************)
(* The unlinker server (session store, deposit matcher, withdrawal engine, *)
(* Redis job queue, batch processor, chain client) together with the       *)
(* EscrowPool contract it talks to.  Every await of the server code is a   *)
(* point where another handler may run; each action below runs one handler *)
(* from one await to the next.  Times are kept relative to the current     *)
(* instant: Date.now() reads Now, and the passing of d milliseconds moves   *)
(* every stored time d into the past (times older than Horizon are kept as  *)
(* -Horizon, which no comparison of the code tells apart).                  *)
(*                                                                         *)
(* Spec is the whole system.  IntakeSpec follows the request API and the   *)
(* deposit listener alone, over more request bodies and deposit amounts;   *)
(* EngineSpec follows enqueueWithdrawal alone, over a fine sampling of     *)
(* Math.random().                                                          *)
(***************************************************************************)
EXTENDS Integers, Sequences, FiniteSets, TLC

\* ------------------------------------------------------------------ bounds
MaxSessions == 2      \* create-session requests served
MaxDeposits == 1      \* deposits made into the pool
MaxHandlers == 1      \* Deposited callbacks that can be suspended at once
MaxTicks == 2         \* interval callbacks that can be suspended at once
MaxIntervals == 1     \* timer periods a queue scan can stay unanswered
RandSteps == 0        \* Math.random() is sampled at RandSteps + 1 points
RandDen == 1000       \* resolution of the sampled Math.random() values
MaxEarlier == 1       \* deposits made before the listener subscribed
MaxListeners == 2     \* Deposited callbacks suspended at once, in the intake runs
MaxReplays == 1       \* logs the subscription hands over a second time
FineSteps == 71       \* Math.random() samples in the runs of the engine alone

\* ------------------------------------------------------- program constants
IntervalMs == 10000
Now == 0
Null == <<>>
Owner == "operator"
ZeroAddress == "0x0"

Users == {"0xAb", "0xCd"}
Signers == {"0xAb"}
Amounts == {100000}
EarlierAmount == 100000
Horizon == MaxIntervals * IntervalMs
TimeSteps == {IntervalMs}

\* Inputs of the runs of the request API and the listener alone.
DepositAmounts == {1, 4, 6, 7, 99989, 99990, 100010, 100011}
\* Expected amounts of the runs of the engine alone (E * 40 fits TLC's integers).
EngineAmounts == {1, 7, 33333, 100000, 999999, 1000000, 25000000}

VARIABLES
    sessions,            \* memdb.sessions, in insertion order; the token is the index
    jobObj,              \* every WithdrawalJob object ever allocated; the id is the index
    pendingWithdrawals,  \* keys of memdb.pendingWithdrawals
    queue,               \* Redis list "pending_withdraws"
    redisQ,              \* commands sent on the Redis connection, not yet answered
    hs,                  \* suspended Deposited callbacks
    ts,                  \* suspended interval callbacks
    nextFire,            \* when the interval timer fires next
    events,              \* Deposited logs emitted by the contract
    delivered,           \* logs handed to the listener, with the sessions stored by then
    orphans,             \* jobs with an operatorWithdraw on the wire whose sender gave up waiting
    jobUsed,             \* EscrowPool.jobUsed
    poolBalance,         \* token.balanceOf(escrow)
    nextDepositId,       \* EscrowPool.nextDepositId
    withdrawn,           \* Withdrawn logs emitted by the contract
    succeeded,           \* jobs for which sendFundsToNewAddress has returned a hash
    reply,               \* outcome of the last API request: the response, the gas transfer
    decoded,             \* private key the client script has decoded from a claimed blob
    lastTx,              \* last transaction an account sent to EscrowPool directly
    paused               \* Pausable.paused() of EscrowPool

vars == <<sessions, jobObj, pendingWithdrawals, queue, redisQ, hs, ts, nextFire,
          events, delivered, orphans, jobUsed, poolBalance, nextDepositId,
          withdrawn, succeeded, reply, decoded, lastTx, paused>>

serverVars == <<sessions, jobObj, pendingWithdrawals, queue, redisQ, hs, ts, succeeded>>
chainVars == <<events, orphans, jobUsed, poolBalance, nextDepositId, withdrawn>>
outsideVars == <<decoded, lastTx, paused>>

\* ---------------------------------------------------------------- helpers
Handlers == DOMAIN hs
Ticks == DOMAIN ts

\* Mutant: the quotient is rounded down instead of toward zero.
TruncDivFloors(a, b) ==
    a \div b

\* JavaScript BigInt division truncates toward zero.
TruncDiv(a, b) ==
    IF a >= 0 THEN a \div b ELSE -((-a) \div b)

\* String.prototype.toLowerCase on the addresses of the model.
ToLowerCase(a) ==
    CASE a = "0xAb" -> "0xab"
      [] a = "0xCd" -> "0xcd"
      [] a = "0xF1" -> "0xf1"
      [] OTHER -> a

\* The values Math.random() takes in the model, as numerators over RandDen.
RandomSamples == {0} \cup {(k * (RandDen - 1)) \div RandSteps : k \in 1..RandSteps}

\* A finer sampling of Math.random(), reaching every value randomInt returns.
FineSamples == {(k * RandDen) \div (FineSteps + 1) : k \in 0..FineSteps} \cup {RandDen - 1}

\* utils/rand.js randomInt, given the value u / RandDen of Math.random().
randomInt(mn, mx, u) ==
    ((u * (mx - mn + 1)) \div RandDen) + mn

\* ethers.id: keccak256 of the UTF-8 bytes of the string (injective on the model's ids).
EthersId(s) == <<"keccak256", s>>

\* The uuid string of the n-th job.
Uuid(n) == <<"uuid", n>>

\* A JavaScript value as the strict comparison sees it: its type and its numeric value.
JsNumber(v) == [t |-> "number", v |-> v]
JsBigInt(v) == [t |-> "bigint", v |-> v]
JsString(s) == [t |-> "string", v |-> s]
Undefined == [t |-> "undefined", v |-> 0]
StrictNotEqual(a, b) == a.t # b.t \/ a.v # b.v

\* ToBoolean: what `!x` negates.
Truthy(x) ==
    CASE x.t = "undefined" -> FALSE
      [] x.t = "number" -> x.v # 0
      [] x.t = "bigint" -> x.v # 0
      [] x.t = "string" -> x.v # <<>>

\* The depositAmount fields of the request bodies of the intake runs.
BodyStrings ==
    {<<"5">>, <<"1", "0", "0", "0", "0", "0">>, <<"0">>, <<"-", "5">>,
     <<"1", ".", "5">>, <<>>}
BodyNumbers == {0, 5}

\* Strings are sequences of characters.
Digits == <<"0", "1", "2", "3", "4", "5", "6", "7", "8", "9">>
IsDigit(c) == \E d \in 1..10 : Digits[d] = c
DigitValue(c) == (CHOOSE d \in 1..10 : Digits[d] = c) - 1

\* The decimal digits of an integer, as Number.prototype.toString and
\* BigInt.prototype.toString write them.
RECURSIVE ToDecimal(_)
ToDecimal(n) ==
    IF n < 0 THEN <<"-">> \o ToDecimal(-n)
    ELSE IF n < 10 THEN <<Digits[n + 1]>>
    ELSE ToDecimal(n \div 10) \o <<Digits[(n % 10) + 1]>>

\* String(x) for the request values of the model.
StringOf(x) ==
    IF x.t = "string" THEN x.v ELSE ToDecimal(x.v)

RECURSIVE DigitsValue(_, _)
DigitsValue(s, acc) ==
    IF s = <<>> THEN acc ELSE DigitsValue(Tail(s), acc * 10 + DigitValue(Head(s)))

\* BigInt(string): the empty string is 0n, an optionally signed run of decimal
\* digits is its value, anything else throws a SyntaxError.
BigIntOf(s) ==
    LET signed == s # <<>> /\ Head(s) \in {"-", "+"}
        body == IF signed THEN Tail(s) ELSE s
    IN  IF s = <<>> THEN [threw |-> FALSE, v |-> 0]
        ELSE IF body = <<>> \/ \E n \in 1..Len(body) : ~IsDigit(body[n])
             THEN [threw |-> TRUE, v |-> 0]
        ELSE [threw |-> FALSE,
              v |-> IF Head(s) = "-" THEN -DigitsValue(body, 0) ELSE DigitsValue(body, 0)]

IdleHandler == [pc |-> "idle", ev |-> 0, snap |-> 0, idx |-> 0]
IdleTick == [pc |-> "idle", now |-> 0, due |-> <<>>, tx |-> Null]
NoReply == [code |-> 0, body |-> [error |-> ""], gas |-> "none"]
NoTx == [fn |-> "none", caller |-> "none", ok |-> FALSE]
NoKey == [threw |-> FALSE, privateKey |-> <<>>, address |-> <<>>, claimed |-> <<>>]

RECURSIVE SeqToSet(_)
SeqToSet(s) == IF s = <<>> THEN {} ELSE {Head(s)} \cup SeqToSet(Tail(s))

\* Array.prototype.filter on a sequence.
RECURSIVE Filter(_, _)
Filter(s, keep) ==
    IF s = <<>> THEN <<>>
    ELSE IF Head(s) \in keep THEN <<Head(s)>> \o Filter(Tail(s), keep)
    ELSE Filter(Tail(s), keep)

\* Mutant: the partner is drawn below i, never i itself.
RECURSIVE ShuffleFromBelow(_, _)
ShuffleFromBelow(arr, i) ==
    IF i <= 1 THEN {arr}
    ELSE UNION {ShuffleFromBelow([arr EXCEPT ![i] = arr[j], ![j] = arr[i]], i - 1) :
                   j \in 1..(i - 1)}

\* The loop of shuffle from position i down: j = floor(Math.random() * (i + 1))
\* is any position up to i, and arr[i] and arr[j] change places.
RECURSIVE ShuffleFrom(_, _)
ShuffleFrom(arr, i) ==
    IF i <= 1 THEN {arr}
    ELSE UNION {ShuffleFrom([arr EXCEPT ![i] = arr[j], ![j] = arr[i]], i - 1) :
                   j \in 1..i}

\* Every order the Fisher-Yates shuffle can leave the array in.
Shuffles(s) == ShuffleFrom(s, Len(s))

Init ==
    /\ sessions = <<>>
    /\ jobObj = <<>>
    /\ pendingWithdrawals = {}
    /\ queue = <<>>
    /\ redisQ = <<>>
    /\ hs = [h \in 1..MaxHandlers |-> IdleHandler]
    /\ ts = [k \in 1..MaxTicks |-> IdleTick]
    /\ nextFire = Now + IntervalMs
    /\ events = <<>>
    /\ delivered = <<>>
    /\ orphans = {}
    /\ jobUsed = {}
    /\ \E n \in 0..MaxEarlier :
        /\ poolBalance = n * EarlierAmount
        /\ nextDepositId = n + 1
    /\ withdrawn = <<>>
    /\ succeeded = {}
    /\ reply = NoReply
    /\ decoded = NoKey
    /\ lastTx = NoTx
    /\ paused = FALSE

\* ------------------------------------------------------------ request API
\* ethers.verifyMessage: the account whose signature over the message this is.
\* A signature made over another message recovers to an unrelated address; a
\* value that is no signature, or a message that is no string, makes it throw.
VerifyMessage(message, signature) ==
    IF message.t # "string" \/ signature.t # "string"
    THEN [threw |-> TRUE, address |-> ""]
    ELSE IF Len(signature.v) < 2 \/ signature.v[1] # "sig"
    THEN [threw |-> TRUE, address |-> ""]
    ELSE IF Tail(Tail(signature.v)) = message.v
    THEN [threw |-> FALSE, address |-> signature.v[2]]
    ELSE [threw |-> FALSE, address |-> "0xF1"]

\* A request body signed by `signer`, asking for depositAmount.
SignedBody(signer, depositAmount) ==
    [message |-> JsString(<<"unlink">>),
     signature |-> JsString(<<"sig", signer, "unlink">>),
     depositAmount |-> depositAmount]

\* What generatePrivateKeyInsideTEE returns for the n-th key, where the
\* content of the blob is not looked into: the blob, the report and the address
\* are named after the key.  The handler drops the keyRef.
NamedKey(n) ==
    [encryptedKeyForUser |-> <<"blob", n>>,
     attestationReport |-> <<"attestation", n>>,
     newAddress |-> <<"wallet", n>>]

\* The two validations of the handler: the error it answers with, "" for none.
\* Mutant: a request without depositAmount passes.
RequestErrorSkipsAmount(body) ==
    IF ~Truthy(body.message) \/ ~Truthy(body.signature)
    THEN "Missing required fields: message, signature, depositAmount"
    ELSE IF VerifyMessage(body.message, body.signature).threw
    THEN "Invalid signature"
    ELSE ""

RequestError(body) ==
    IF ~Truthy(body.message) \/ ~Truthy(body.signature) \/ ~Truthy(body.depositAmount)
    THEN "Missing required fields: message, signature, depositAmount"
    ELSE IF VerifyMessage(body.message, body.signature).threw
    THEN "Invalid signature"
    ELSE ""

\* The session object the handler builds for a validated body.
NewSession(sessionToken, body, tee) ==
    [sessionToken |-> sessionToken,
     userAddress |-> ToLowerCase(VerifyMessage(body.message, body.signature).address),
     expectedAmount |-> StringOf(body.depositAmount),
     status |-> "awaiting_deposit",
     newAddress |-> tee.newAddress,
     encryptedKeyForUser |-> tee.encryptedKeyForUser,
     attestationReport |-> tee.attestationReport,
     depositTxHash |-> Null,
     withdrawTxHash |-> Null]

\* Mutant: a signer who has a session gets no second one.
StoreSessionOncePerSigner(store, session) ==
    IF \E i \in 1..Len(store) : store[i].userAddress = session.userAddress
    THEN store
    ELSE Append(store, session)

\* memdb.sessions[sessionToken] = session, under a token uuidv4() has just made.
StoreSession(store, session) ==
    Append(store, session)

\* Mutant: a failed pre-fund is answered with an error.
CreatedReplyFailsOnGas(session, gasSent) ==
    IF gasSent
    THEN [code |-> 201,
          body |-> [sessionToken |-> session.sessionToken, newAddress |-> session.newAddress],
          gas |-> "sent"]
    ELSE [code |-> 500, body |-> [error |-> "Internal server error"], gas |-> "failed"]

\* The answer to a request that has stored its session: the pre-fund is tried
\* and its failure is caught and logged.
CreatedReply(session, gasSent) ==
    [code |-> 201,
     body |-> [sessionToken |-> session.sessionToken, newAddress |-> session.newAddress],
     gas |-> IF gasSent THEN "sent" ELSE "failed"]

\* POST /api/request-wallet with `body`; tee is what the enclave returns if it
\* is asked for a key, gasSent whether the gas pre-fund transfer goes out.  The
\* handler stores the session before it awaits the pre-fund and touches the
\* store no more.
RequestWallet(body, gasSent, tee) ==
    /\ Len(sessions) < MaxSessions
    /\ IF RequestError(body) # ""
       THEN /\ reply' = [code |-> 400, body |-> [error |-> RequestError(body)],
                         gas |-> "none"]
            /\ sessions' = sessions
       ELSE /\ sessions' = StoreSession(sessions, NewSession(Len(sessions) + 1, body, tee))
            /\ reply' = CreatedReply(NewSession(Len(sessions) + 1, body, tee), gasSent)
    /\ UNCHANGED <<jobObj, pendingWithdrawals, queue, redisQ, hs, ts, succeeded,
                   nextFire, delivered>>
    /\ UNCHANGED chainVars
    /\ UNCHANGED outsideVars

\* Property names every plain object inherits from Object.prototype.
ObjectPrototypeKeys == {<<"constructor">>, <<"toString">>, <<"__proto__">>}

\* The query string ?sessionToken= naming the n-th session.
TokenString(n) == JsString(<<"session", n>>)

\* memdb.sessions[key]: the store is a plain object, so a key that is no
\* session's token but names an inherited property yields that property.
Lookup(store, key) ==
    IF Len(key) = 2 /\ key[1] = "session" /\ key[2] \in 1..Len(store)
    THEN [kind |-> "own", session |-> store[key[2]]]
    ELSE IF key \in ObjectPrototypeKeys
    THEN [kind |-> "inherited", session |-> Null]
    ELSE [kind |-> "undefined", session |-> Null]

\* An object without own enumerable properties.
EmptyObject == [f \in {} |-> Null]

\* Mutant: the whole session object is returned.
StatusBodyWhole(session) ==
    session

\* const { encryptedKeyForUser, ...safeSession } = session
StatusBody(session) ==
    [f \in DOMAIN session \ {"encryptedKeyForUser"} |-> session[f]]

\* The answer of GET /api/status?sessionToken=...
StatusReply(store, sessionToken) ==
    IF ~Truthy(sessionToken) \/ sessionToken.t # "string"
    THEN [code |-> 400, body |-> [error |-> "sessionToken is required"], gas |-> "none"]
    ELSE IF Lookup(store, sessionToken.v).kind = "undefined"
    THEN [code |-> 404, body |-> [error |-> "Session not found"], gas |-> "none"]
    ELSE IF Lookup(store, sessionToken.v).kind = "inherited"
    THEN [code |-> 200, body |-> EmptyObject, gas |-> "none"]
    ELSE [code |-> 200, body |-> StatusBody(Lookup(store, sessionToken.v).session),
          gas |-> "none"]

\* The answer of GET /api/claim-wallet?sessionToken=...; the three fields of an
\* inherited property are undefined.
ClaimReply(store, sessionToken) ==
    IF ~Truthy(sessionToken) \/ sessionToken.t # "string"
    THEN [code |-> 400, body |-> [error |-> "sessionToken is required"], gas |-> "none"]
    ELSE IF Lookup(store, sessionToken.v).kind = "undefined"
    THEN [code |-> 404, body |-> [error |-> "Session not found"], gas |-> "none"]
    ELSE IF Lookup(store, sessionToken.v).kind = "inherited"
    THEN [code |-> 409,
          body |-> [error |-> "Wallet not yet generated or session in invalid state"],
          gas |-> "none"]
    ELSE LET session == Lookup(store, sessionToken.v).session
         IN  IF \/ session.newAddress = Null
                \/ session.encryptedKeyForUser = Null
                \/ session.attestationReport = Null
             THEN [code |-> 409,
                   body |-> [error |-> "Wallet not yet generated or session in invalid state"],
                   gas |-> "none"]
             ELSE [code |-> 200,
                   body |-> [newAddress |-> session.newAddress,
                             encryptedKeyForUser |-> session.encryptedKeyForUser,
                             attestationReport |-> session.attestationReport],
                   gas |-> "none"]

\* GET /api/status
GetStatus(sessionToken) ==
    /\ reply' = StatusReply(sessions, sessionToken)
    /\ UNCHANGED <<nextFire, delivered>>
    /\ UNCHANGED serverVars
    /\ UNCHANGED chainVars
    /\ UNCHANGED outsideVars

\* GET /api/claim-wallet
GetClaimWallet(sessionToken) ==
    /\ reply' = ClaimReply(sessions, sessionToken)
    /\ UNCHANGED <<nextFire, delivered>>
    /\ UNCHANGED serverVars
    /\ UNCHANGED chainVars
    /\ UNCHANGED outsideVars

\* ----------------------------------------------------------------- clock
Earlier(t, d) == IF t - d < -Horizon THEN -Horizon ELSE t - d

AdvanceTime(d) ==
    /\ \A k \in Ticks : ts[k].pc = "awaitPop" => ts[k].now - d >= -Horizon
    /\ jobObj' = [j \in 1..Len(jobObj) |->
                    [jobObj[j] EXCEPT !.executeAfter = Earlier(@, d)]]
    /\ ts' = [k \in Ticks |->
                IF ts[k].pc = "awaitPop" THEN [ts[k] EXCEPT !.now = @ - d] ELSE ts[k]]
    /\ nextFire' = IF nextFire - d < Now THEN Now ELSE nextFire - d
    /\ UNCHANGED <<sessions, pendingWithdrawals, queue, redisQ, hs, succeeded,
                   delivered>>
    /\ UNCHANGED chainVars
    /\ UNCHANGED <<reply, decoded, lastTx, paused>>

\* ------------------------------------------------------ EscrowPool contract
\* Mutant: deposit without whenNotPaused.
DepositAcceptedWhilePaused(amount) ==
    /\ amount > 0

\* The modifiers and requires of EscrowPool.deposit (the token is set and the
\* caller has approved and holds the amount).
DepositAccepted(amount) ==
    /\ ~paused
    /\ amount > 0

\* Mutant: the counter is not advanced.
DepositedKeepsId(from, amount) ==
    /\ nextDepositId' = nextDepositId
    /\ poolBalance' = poolBalance + amount
    /\ events' = Append(events, [from |-> from, amount |-> amount,
                                 depositId |-> nextDepositId,
                                 txHash |-> <<"deposit", nextDepositId>>])

\* The effects of an accepted deposit.
Deposited(from, amount) ==
    /\ nextDepositId' = nextDepositId + 1
    /\ poolBalance' = poolBalance + amount
    /\ events' = Append(events, [from |-> from, amount |-> amount,
                                 depositId |-> nextDepositId,
                                 txHash |-> <<"deposit", nextDepositId>>])

\* EscrowPool.deposit(amount) called by `from` and accepted.
Deposit(from, amount) ==
    /\ Len(events) < MaxDeposits
    /\ DepositAccepted(amount)
    /\ Deposited(from, amount)
    /\ UNCHANGED <<orphans, jobUsed, withdrawn>>
    /\ UNCHANGED <<nextFire, delivered>>
    /\ UNCHANGED serverVars
    /\ UNCHANGED <<reply, decoded, lastTx, paused>>

\* Mutant: the require chain without the replay guard on jobId.
WithdrawAcceptedNoReplayGuard(caller, to, amount, jobId) ==
    /\ caller = Owner
    /\ ~paused
    /\ to # ZeroAddress
    /\ amount > 0
    /\ amount <= poolBalance

\* Mutant: the require chain without onlyOwner.
WithdrawAcceptedAnyCaller(caller, to, amount, jobId) ==
    /\ ~paused
    /\ to # ZeroAddress
    /\ amount > 0
    /\ jobId \notin jobUsed
    /\ amount <= poolBalance

\* The require chain of EscrowPool.operatorWithdraw.
WithdrawAccepted(caller, to, amount, jobId) ==
    /\ caller = Owner
    /\ ~paused
    /\ to # ZeroAddress
    /\ amount > 0
    /\ jobId \notin jobUsed
    /\ amount <= poolBalance


\* EscrowPool.operatorWithdraw(to, amount, depositId, jobId) executed for a call
\* c: the state of the contract after it, and whether it went through.
OperatorWithdraw(c) ==
    IF WithdrawAccepted(c.caller, c.to, c.amount, c.jobId)
    THEN /\ jobUsed' = jobUsed \cup {c.jobId}
         /\ poolBalance' = poolBalance - c.amount
         /\ withdrawn' = Append(withdrawn, [to |-> c.to, amount |-> c.amount,
                                            depositId |-> c.depositId, jobId |-> c.jobId])
    ELSE UNCHANGED <<jobUsed, poolBalance, withdrawn>>

\* --------------------------------------------------------- deposit matcher
\* Mutant: the sender of the deposit is not compared.
MatchesAnySender(s, ev) ==
    /\ s.status = "awaiting_deposit"
    /\ ~BigIntOf(s.expectedAmount).threw
    /\ LET expected == BigIntOf(s.expectedAmount).v
           diff == IF expected > ev.amount THEN expected - ev.amount
                   ELSE ev.amount - expected
           tolerance == IF TruncDiv(expected, 10000) # 0 THEN TruncDiv(expected, 10000)
                        ELSE 1
       IN  ~(diff > tolerance)

\* Mutant: a difference equal to the tolerance is skipped as well.
MatchesBelowTolerance(s, ev) ==
    /\ s.userAddress = ToLowerCase(ev.from)
    /\ s.status = "awaiting_deposit"
    /\ ~BigIntOf(s.expectedAmount).threw
    /\ LET expected == BigIntOf(s.expectedAmount).v
           diff == IF expected > ev.amount THEN expected - ev.amount
                   ELSE ev.amount - expected
           tolerance == IF TruncDiv(expected, 10000) # 0 THEN TruncDiv(expected, 10000)
                        ELSE 1
       IN  ~(diff >= tolerance)

\* Mutant: the session's status is not looked at.
MatchesAnyStatus(s, ev) ==
    /\ s.userAddress = ToLowerCase(ev.from)
    /\ ~BigIntOf(s.expectedAmount).threw
    /\ LET expected == BigIntOf(s.expectedAmount).v
           diff == IF expected > ev.amount THEN expected - ev.amount
                   ELSE ev.amount - expected
           tolerance == IF TruncDiv(expected, 10000) # 0 THEN TruncDiv(expected, 10000)
                        ELSE 1
       IN  ~(diff > tolerance)

\* The `continue` guards of the listener's loop body.
Matches(s, ev) ==
    /\ s.userAddress = ToLowerCase(ev.from)
    /\ s.status = "awaiting_deposit"
    /\ ~BigIntOf(s.expectedAmount).threw
    /\ LET expected == BigIntOf(s.expectedAmount).v
           diff == IF expected > ev.amount THEN expected - ev.amount
                   ELSE ev.amount - expected
           tolerance == IF TruncDiv(expected, 10000) # 0 THEN TruncDiv(expected, 10000)
                        ELSE 1
       IN  ~(diff > tolerance)

\* First position from `from` on, within the snapshot, whose session matches (0: none).
FirstMatch(ss, from, snap, ev) ==
    LET hits == {i \in from..snap : Matches(ss[i], ev)}
    IN  IF hits = {} THEN 0 ELSE CHOOSE i \in hits : \A j \in hits : i <= j

\* Mutant: the delay is drawn from 1 to 60 seconds.
NewJobDelayUpTo60(session, id, uJ, uD) ==
    LET expected == BigIntOf(session.expectedAmount).v
        jitterPpm == randomInt(-30, 40, uJ)
    IN  [id |-> Uuid(id),
         sessionToken |-> session.sessionToken,
         newAddress |-> session.newAddress,
         normalizedAmount |-> expected + TruncDiv(expected * jitterPpm, 1000000),
         depositId |-> IF "depositId" \in DOMAIN session THEN session.depositId ELSE Null,
         executeAfter |-> Now + randomInt(1, 60, uD) * 1000,
         status |-> "pending"]

\* unlinker/engine.js enqueueWithdrawal up to its await: the job object that is
\* stored, for the draws uJ (amount jitter) and uD (delay) of Math.random().
\* A session object has a depositId only if somebody has set one.
NewJob(session, id, uJ, uD) ==
    LET expected == BigIntOf(session.expectedAmount).v
        jitterPpm == randomInt(-30, 40, uJ)
    IN  [id |-> Uuid(id),
         sessionToken |-> session.sessionToken,
         newAddress |-> session.newAddress,
         normalizedAmount |-> expected + TruncDiv(expected * jitterPpm, 1000000),
         depositId |-> IF "depositId" \in DOMAIN session THEN session.depositId ELSE Null,
         executeAfter |-> Now + randomInt(1, 10, uD) * 1000,
         status |-> "pending"]

\* Mutant: the matched session takes over the sender as the event spells it.
DetectedTakesSender(session, ev) ==
    [session EXCEPT !.status = "deposit_detected",
                    !.depositTxHash = ev.txHash,
                    !.userAddress = ev.from]

\* Mutant: the status is advanced and the hash is not recorded.
DetectedNoHash(session, ev) ==
    [session EXCEPT !.status = "deposit_detected"]

\* The assignments of the loop body to the session it has matched.
Detected(session, ev) ==
    [session EXCEPT !.status = "deposit_detected",
                    !.depositTxHash = ev.txHash]

\* The listener's loop, run on the store ss from position `from` until it either
\* suspends in pushJob (inside enqueueWithdrawal) or runs off the snapshot.
ListenerRun(h, ss, from, e, snap, rq) ==
    LET i == FirstMatch(ss, from, snap, events[e])
    IN  IF i = 0
        THEN /\ sessions' = ss
             /\ hs' = [hs EXCEPT ![h] = IdleHandler]
             /\ UNCHANGED <<jobObj, pendingWithdrawals>>
             /\ redisQ' = rq
        ELSE \E uJ \in RandomSamples, uD \in RandomSamples :
             LET matched == Detected(ss[i], events[e])
                 id == Len(jobObj) + 1
             IN  /\ sessions' = [ss EXCEPT ![i] = matched]
                 /\ jobObj' = Append(jobObj, NewJob(matched, id, uJ, uD))
                 /\ pendingWithdrawals' = pendingWithdrawals \cup {id}
                 /\ redisQ' = Append(rq,
                                     [op |-> "rPush", arg |-> id, by |-> <<"listener", h>>])
                 /\ hs' = [hs EXCEPT ![h] = [pc |-> "awaitPush", ev |-> e,
                                             snap |-> snap, idx |-> i]]

\* The first log the subscription has not handed over yet.
NextLog == Cardinality({delivered[n].log : n \in 1..Len(delivered)}) + 1

\* The subscription hands the next Deposited log to the callback.
DeliverEvent(h) ==
    /\ NextLog <= Len(events)
    /\ hs[h].pc = "idle"
    /\ \A g \in Handlers : g < h => hs[g].pc # "idle"
    /\ delivered' = Append(delivered, [log |-> NextLog, seen |-> Len(sessions)])
    /\ ListenerRun(h, sessions, 1, NextLog, Len(sessions), redisQ)
    /\ UNCHANGED <<queue, ts, succeeded, nextFire>>
    /\ UNCHANGED chainVars
    /\ UNCHANGED <<reply, decoded, lastTx, paused>>

\* The subscription hands a log to the callback that it has handed over before
\* (a provider that reconnects or re-scans a block range emits its logs again).
ReplayEvent(h, e) ==
    /\ e < NextLog
    /\ Len(delivered) < NextLog - 1 + MaxReplays
    /\ hs[h].pc = "idle"
    /\ \A g \in Handlers : g < h => hs[g].pc # "idle"
    /\ delivered' = Append(delivered, [log |-> e, seen |-> Len(sessions)])
    /\ ListenerRun(h, sessions, 1, e, Len(sessions), redisQ)
    /\ UNCHANGED <<queue, ts, succeeded, nextFire>>
    /\ UNCHANGED chainVars
    /\ UNCHANGED <<reply, decoded, lastTx, paused>>

\* Redis answers the rPush of pushJob; enqueueWithdrawal resumes, then the loop.
\* A command that fails may or may not have been applied by the server.
PushReply(h, ok, applied) ==
    /\ redisQ # <<>>
    /\ Head(redisQ).op = "rPush"
    /\ Head(redisQ).by = <<"listener", h>>
    /\ ok => applied
    /\ queue' = IF applied THEN Append(queue, Head(redisQ).arg) ELSE queue
    /\ IF ok
       THEN LET i == hs[h].idx
                queued == [sessions EXCEPT ![i].status = "withdrawal_queued"]
            IN  ListenerRun(h, queued, i + 1, hs[h].ev, hs[h].snap, Tail(redisQ))
       ELSE /\ hs' = [hs EXCEPT ![h] = IdleHandler]
            /\ redisQ' = Tail(redisQ)
            /\ UNCHANGED <<sessions, jobObj, pendingWithdrawals>>
    /\ UNCHANGED <<ts, succeeded, nextFire, delivered>>
    /\ UNCHANGED chainVars
    /\ UNCHANGED <<reply, decoded, lastTx, paused>>


\* ---------------------------------------------------------- chain client
\* Mutant: the bytes32 id is derived from the job's retry time as well, so a
\* retry presents another id.
WithdrawCallIdPerAttempt(job) ==
    [job |-> job.id,
     caller |-> Owner,
     to |-> job.newAddress,
     amount |-> job.normalizedAmount,
     depositId |-> IF job.depositId = Null THEN 0 ELSE job.depositId[2],
     jobId |-> EthersId(<<job.id, job.executeAfter>>)]

\* sendFundsToNewAddress up to its first await: the operatorWithdraw call it
\* sends for a job object.  A missing depositId is sent as zero.
WithdrawCall(job) ==
    [job |-> job.id,
     caller |-> Owner,
     to |-> job.newAddress,
     amount |-> job.normalizedAmount,
     depositId |-> IF job.depositId = Null THEN 0 ELSE job.depositId[2],
     jobId |-> EthersId(job.id)]

\* Mutant: the receipt's status is not looked at.
ReceiptRejectedNever(status) ==
    FALSE

\* The test on the receipt after tx.wait(): TRUE when the function throws.
ReceiptRejected(status) ==
    StrictNotEqual(status, JsBigInt(1))

\* The status field of the receipt of a mined transaction, in the
\* representation rep ("number" or "bigint") the RPC library delivers.
ReceiptStatus(state, rep) ==
    LET v == IF state = "accepted" THEN 1 ELSE 0
    IN  IF rep = "bigint" THEN JsBigInt(v) ELSE JsNumber(v)

\* --------------------------------------------------------- batch processor
\* The filter of the tick over the ids read from the queue.
DueJobs(jobIds, tnow) ==
    LET eligible == {j \in pendingWithdrawals :
                        /\ jobObj[j].status = "pending"
                        /\ ~(jobObj[j].executeAfter > tnow)}
    IN  Filter(jobIds, eligible)

\* The for-loop of the tick moves to its next job: either the tick ends or
\* sendFundsToNewAddress is called for the head of `rest` and suspends with
\* its transaction on the wire.  The hash of a transaction names the job and
\* the callback that sent it.
TickContinue(k, rest, jobs) ==
    IF rest = <<>>
    THEN ts' = [ts EXCEPT ![k] = IdleTick]
    ELSE ts' = [ts EXCEPT ![k] = [pc |-> "awaitTx", now |-> Now, due |-> rest,
                                  tx |-> [call |-> WithdrawCall(jobs[Head(rest)]),
                                          hash |-> <<"tx", Head(rest), k>>,
                                          state |-> "sent"]]]

\* The interval timer fires: the callback takes the time and calls popJobs.
TickStart(k) ==
    /\ Now >= nextFire
    /\ ts[k].pc = "idle"
    /\ \A g \in Ticks : g < k => ts[g].pc # "idle"
    /\ nextFire' = Now + IntervalMs
    /\ ts' = [ts EXCEPT ![k] = [pc |-> "awaitPop", now |-> Now, due |-> <<>>, tx |-> Null]]
    /\ redisQ' = Append(redisQ, [op |-> "lRange", arg |-> 0, by |-> <<"tick", k>>])
    /\ UNCHANGED <<sessions, jobObj, pendingWithdrawals, queue, hs, succeeded,
                   delivered>>
    /\ UNCHANGED chainVars
    /\ UNCHANGED <<reply, decoded, lastTx, paused>>

\* Redis answers the lRange of popJobs: the tick filters, shuffles and submits
\* its first job; a failed scan ends the tick in the outer catch.
PopReply(k, ok) ==
    /\ redisQ # <<>>
    /\ Head(redisQ).op = "lRange"
    /\ Head(redisQ).by = <<"tick", k>>
    /\ redisQ' = Tail(redisQ)
    /\ IF ok
       THEN \E order \in Shuffles(DueJobs(queue, ts[k].now)) :
                TickContinue(k, order, jobObj)
       ELSE ts' = [ts EXCEPT ![k] = IdleTick]
    /\ UNCHANGED <<sessions, jobObj, pendingWithdrawals, queue, hs, succeeded,
                   nextFire, delivered>>
    /\ UNCHANGED chainVars
    /\ UNCHANGED <<reply, decoded, lastTx, paused>>

\* The transaction a tick is waiting for is mined.
TxMine(k) ==
    /\ ts[k].pc = "awaitTx"
    /\ ts[k].tx.state = "sent"
    /\ OperatorWithdraw(ts[k].tx.call)
    /\ ts' = [ts EXCEPT ![k].tx.state =
                 IF WithdrawAccepted(ts[k].tx.call.caller, ts[k].tx.call.to,
                                     ts[k].tx.call.amount, ts[k].tx.call.jobId)
                 THEN "accepted" ELSE "reverted"]
    /\ UNCHANGED <<events, orphans, nextDepositId>>
    /\ UNCHANGED <<sessions, jobObj, pendingWithdrawals, queue, redisQ, hs, succeeded>>
    /\ UNCHANGED <<nextFire, delivered>>
    /\ UNCHANGED <<reply, decoded, lastTx, paused>>

\* A transaction whose sender has stopped waiting is mined all the same.
OrphanMine(j) ==
    /\ j \in orphans
    /\ orphans' = orphans \ {j}
    /\ OperatorWithdraw(WithdrawCall(jobObj[j]))
    /\ UNCHANGED <<events, nextDepositId>>
    /\ UNCHANGED <<nextFire, delivered>>
    /\ UNCHANGED serverVars
    /\ UNCHANGED <<reply, decoded, lastTx, paused>>

\* Mutant: the catch block gives the job up.
RetryLaterGivesUp(jobs, j, u) ==
    [jobs EXCEPT ![j].status = "failed"]

\* Mutant: the catch block puts off every job of the table.
RetryLaterAll(jobs, j, u) ==
    [i \in DOMAIN jobs |-> [jobs[i] EXCEPT !.status = "pending",
                                           !.executeAfter = Now + randomInt(30, 120, u) * 1000]]

\* The catch block of the loop body, for the draw u of Math.random().
RetryLater(jobs, j, u) ==
    [jobs EXCEPT ![j].status = "pending",
                 ![j].executeAfter = Now + randomInt(30, 120, u) * 1000]

\* tx.wait() returns the receipt of the mined transaction.
TxReceipt(k, rep) ==
    /\ ts[k].pc = "awaitTx"
    /\ ts[k].tx.state # "sent"
    /\ LET j == Head(ts[k].due)
           tok == jobObj[j].sessionToken
       IN  IF ReceiptRejected(ReceiptStatus(ts[k].tx.state, rep))
           THEN /\ \E u \in RandomSamples :
                    /\ jobObj' = RetryLater(jobObj, j, u)
                    /\ TickContinue(k, Tail(ts[k].due), jobObj')
                /\ UNCHANGED <<sessions, redisQ, succeeded>>
           ELSE /\ jobObj' = [jobObj EXCEPT ![j].status = "completed"]
                /\ sessions' = IF tok \in 1..Len(sessions)
                               THEN [sessions EXCEPT ![tok].withdrawTxHash = ts[k].tx.hash,
                                                     ![tok].status = "completed"]
                               ELSE sessions
                /\ succeeded' = succeeded \cup {j}
                /\ redisQ' = Append(redisQ, [op |-> "lRem", arg |-> j, by |-> <<"tick", k>>])
                /\ ts' = [ts EXCEPT ![k].pc = "awaitRem"]
    /\ UNCHANGED <<pendingWithdrawals, queue, hs, nextFire, delivered>>
    /\ UNCHANGED chainVars
    /\ UNCHANGED <<reply, decoded, lastTx, paused>>

\* The submission throws before a receipt arrives (RPC error, timeout, dropped
\* connection): the loop's catch block runs.  Unless the transaction was lost
\* on the way, it stays on the wire and can still be mined.
TxError(k, lost) ==
    /\ ts[k].pc = "awaitTx"
    /\ ts[k].tx.state = "sent"
    /\ orphans' = IF lost THEN orphans ELSE orphans \cup {Head(ts[k].due)}
    /\ \E u \in RandomSamples :
        /\ jobObj' = RetryLater(jobObj, Head(ts[k].due), u)
        /\ TickContinue(k, Tail(ts[k].due), jobObj')
    /\ UNCHANGED <<sessions, pendingWithdrawals, queue, redisQ, hs, succeeded,
                   nextFire, delivered>>
    /\ UNCHANGED <<events, jobUsed, poolBalance, nextDepositId, withdrawn>>
    /\ UNCHANGED <<reply, decoded, lastTx, paused>>

\* Redis answers the lRem of removeJob: the job leaves the table, or the error
\* lands in the catch block of the loop body.
RemReply(k, ok, applied) ==
    /\ redisQ # <<>>
    /\ Head(redisQ).op = "lRem"
    /\ Head(redisQ).by = <<"tick", k>>
    /\ ok => applied
    /\ redisQ' = Tail(redisQ)
    /\ LET j == Head(ts[k].due)
       IN  /\ queue' = IF applied THEN Filter(queue, SeqToSet(queue) \ {j}) ELSE queue
           /\ IF ok
              THEN /\ pendingWithdrawals' = pendingWithdrawals \ {j}
                   /\ jobObj' = jobObj
                   /\ TickContinue(k, Tail(ts[k].due), jobObj)
              ELSE /\ pendingWithdrawals' = pendingWithdrawals
                   /\ \E u \in RandomSamples :
                       /\ jobObj' = RetryLater(jobObj, j, u)
                       /\ TickContinue(k, Tail(ts[k].due), jobObj')
    /\ UNCHANGED <<sessions, hs, succeeded, nextFire, delivered>>
    /\ UNCHANGED chainVars
    /\ UNCHANGED <<reply, decoded, lastTx, paused>>

\* ------------------------------------------------------------ specification
Next ==
    \/ \E signer \in Signers, a \in Amounts :
          RequestWallet(SignedBody(signer, JsString(ToDecimal(a))), TRUE,
                        NamedKey(Len(sessions) + 1))
    \/ \E d \in TimeSteps : AdvanceTime(d)
    \/ \E from \in Users, a \in Amounts : Deposit(from, a)
    \/ \E h \in Handlers : DeliverEvent(h)
    \/ \E h \in Handlers, ok \in BOOLEAN, applied \in BOOLEAN : PushReply(h, ok, applied)
    \/ \E k \in Ticks : TickStart(k)
    \/ \E k \in Ticks, ok \in BOOLEAN : PopReply(k, ok)
    \/ \E k \in Ticks : TxMine(k)
    \/ \E j \in 1..Len(jobObj) : OrphanMine(j)
    \/ \E k \in Ticks, rep \in {"number", "bigint"} : TxReceipt(k, rep)
    \/ \E k \in Ticks, lost \in BOOLEAN : TxError(k, lost)
    \/ \E k \in Ticks, ok \in BOOLEAN, applied \in BOOLEAN : RemReply(k, ok, applied)

Spec == Init /\ [][Next]_vars


\* The same system under the scheduling the runtime guarantees: the clock runs,
\* the timer fires, Redis and the chain answer, logs are delivered.
Fairness ==
    /\ WF_vars(\E d \in TimeSteps : AdvanceTime(d))
    /\ WF_vars(\E h \in Handlers : DeliverEvent(h))
    /\ WF_vars(\E h \in Handlers, ok \in BOOLEAN, applied \in BOOLEAN : PushReply(h, ok, applied))
    /\ WF_vars(\E k \in Ticks : TickStart(k))
    /\ WF_vars(\E k \in Ticks, ok \in BOOLEAN : PopReply(k, ok))
    /\ WF_vars(\E k \in Ticks : TxMine(k))
    /\ WF_vars(\E j \in 1..Len(jobObj) : OrphanMine(j))
    /\ WF_vars(\E k \in Ticks, rep \in {"number", "bigint"} : TxReceipt(k, rep))
    /\ WF_vars(\E k \in Ticks, ok \in BOOLEAN, applied \in BOOLEAN : RemReply(k, ok, applied))

FairSpec == Spec /\ Fairness

\* ------------------------------------------------- request API and listener
\* The server before any request, with a freshly deployed contract; the
\* batch processor's timer is not followed.
IntakeInit ==
    /\ sessions = <<>>
    /\ jobObj = <<>>
    /\ pendingWithdrawals = {}
    /\ queue = <<>>
    /\ redisQ = <<>>
    /\ hs = [h \in 1..MaxListeners |-> IdleHandler]
    /\ ts = [k \in 1..MaxTicks |-> IdleTick]
    /\ nextFire = Now + IntervalMs
    /\ events = <<>>
    /\ delivered = <<>>
    /\ orphans = {}
    /\ jobUsed = {}
    /\ poolBalance = 0
    /\ nextDepositId = 1
    /\ withdrawn = <<>>
    /\ succeeded = {}
    /\ reply = NoReply
    /\ decoded = NoKey
    /\ lastTx = NoTx
    /\ paused = FALSE

IntakeNext ==
    \/ \E signer \in Signers, v \in BodyStrings, gasSent \in BOOLEAN :
          RequestWallet(SignedBody(signer, JsString(v)), gasSent, NamedKey(Len(sessions) + 1))
    \/ \E signer \in Signers, n \in BodyNumbers :
          RequestWallet(SignedBody(signer, JsNumber(n)), TRUE, NamedKey(Len(sessions) + 1))
    \/ \E signer \in Signers :
          RequestWallet(SignedBody(signer, Undefined), TRUE, NamedKey(Len(sessions) + 1))
    \/ \E from \in Users, a \in DepositAmounts : Deposit(from, a)
    \/ \E h \in Handlers : DeliverEvent(h)
    \/ \E h \in Handlers, e \in 1..Len(events) : ReplayEvent(h, e)
    \/ \E h \in Handlers, ok \in BOOLEAN, applied \in BOOLEAN : PushReply(h, ok, applied)

IntakeSpec == IntakeInit /\ [][IntakeNext]_vars

\* ----------------------------------------------------------- engine alone
\* The listener has just matched the deposit of a session with expected amount
\* E and is about to call enqueueWithdrawal for it.
EngineInit ==
    \E E \in EngineAmounts :
        /\ sessions = <<[sessionToken |-> 1,
                         userAddress |-> "0xab",
                         expectedAmount |-> ToDecimal(E),
                         status |-> "deposit_detected",
                         newAddress |-> <<"wallet", 1>>,
                         encryptedKeyForUser |-> <<"blob", 1>>,
                         attestationReport |-> <<"attestation", 1>>,
                         depositTxHash |-> <<"deposit", 1>>,
                         withdrawTxHash |-> Null]>>
        /\ jobObj = <<>>
        /\ pendingWithdrawals = {}
        /\ queue = <<>>
        /\ redisQ = <<>>
        /\ hs = [h \in 1..MaxHandlers |->
                   IF h = 1 THEN [pc |-> "matched", ev |-> 1, snap |-> 1, idx |-> 1]
                   ELSE IdleHandler]
        /\ ts = [k \in 1..MaxTicks |-> IdleTick]
        /\ nextFire = Now + IntervalMs
        /\ events = <<[from |-> "0xAb", amount |-> E, depositId |-> 1,
                       txHash |-> <<"deposit", 1>>]>>
        /\ delivered = <<[log |-> 1, seen |-> 1]>>
        /\ orphans = {}
        /\ jobUsed = {}
        /\ poolBalance = E
        /\ nextDepositId = 2
        /\ withdrawn = <<>>
        /\ succeeded = {}
        /\ reply = NoReply
        /\ decoded = NoKey
        /\ lastTx = NoTx
        /\ paused = FALSE

\* enqueueWithdrawal(session) up to its await, for the draws uJ and uD.
EnqueueWithdrawal(h, uJ, uD) ==
    /\ hs[h].pc = "matched"
    /\ LET id == Len(jobObj) + 1
       IN  /\ jobObj' = Append(jobObj, NewJob(sessions[hs[h].idx], id, uJ, uD))
           /\ pendingWithdrawals' = pendingWithdrawals \cup {id}
           /\ redisQ' = Append(redisQ,
                               [op |-> "rPush", arg |-> id, by |-> <<"listener", h>>])
    /\ hs' = [hs EXCEPT ![h].pc = "awaitPush"]
    /\ UNCHANGED <<sessions, queue, ts, succeeded, nextFire, delivered>>
    /\ UNCHANGED chainVars
    /\ UNCHANGED <<reply, decoded, lastTx, paused>>

EngineNext ==
    \/ \E h \in Handlers, uJ \in FineSamples, uD \in FineSamples :
          EnqueueWithdrawal(h, uJ, uD)
    \/ \E h \in Handlers, ok \in BOOLEAN, applied \in BOOLEAN : PushReply(h, ok, applied)

EngineSpec == EngineInit /\ [][EngineNext]_vars

\* ------------------------------------------------------------ API surface
\* Request bodies a client can send besides a well-formed one: a required field
\* left out, a value that is no signature, a signature made over another
\* message, and a body that names an address of its own.
RequiredFields == {"message", "signature", "depositAmount"}
AskedAmount == JsString(ToDecimal(100000))
MissingBody(signer, f) == [SignedBody(signer, AskedAmount) EXCEPT ![f] = Undefined]
ForgedBody(signer) ==
    [SignedBody(signer, AskedAmount) EXCEPT !.signature = JsString(<<"0xdeadbeef">>)]
ReusedBody(signer) ==
    [SignedBody(signer, AskedAmount) EXCEPT !.signature = JsString(<<"sig", signer, "login">>)]
ClaimingBody(signer, claimed) ==
    [message |-> JsString(<<"unlink">>),
     signature |-> JsString(<<"sig", signer, "unlink">>),
     depositAmount |-> AskedAmount,
     userAddress |-> JsString(<<claimed>>)]
UnknownKeys == ObjectPrototypeKeys \cup {<<"nobody">>, <<"session", 0>>}

\* The whole server with one listener callback and one tick in flight, and
\* clients that send every kind of request.
ApiInit ==
    /\ sessions = <<>>
    /\ jobObj = <<>>
    /\ pendingWithdrawals = {}
    /\ queue = <<>>
    /\ redisQ = <<>>
    /\ hs = [h \in 1..1 |-> IdleHandler]
    /\ ts = [k \in 1..1 |-> IdleTick]
    /\ nextFire = Now + IntervalMs
    /\ events = <<>>
    /\ delivered = <<>>
    /\ orphans = {}
    /\ jobUsed = {}
    /\ poolBalance = 0
    /\ nextDepositId = 1
    /\ withdrawn = <<>>
    /\ succeeded = {}
    /\ reply = NoReply
    /\ decoded = NoKey
    /\ lastTx = NoTx
    /\ paused = FALSE

ApiNext ==
    \/ \E signer \in Signers, gasSent \in BOOLEAN :
          RequestWallet(SignedBody(signer, AskedAmount), gasSent, NamedKey(Len(sessions) + 1))
    \/ \E signer \in Signers, f \in RequiredFields, gasSent \in BOOLEAN :
          RequestWallet(MissingBody(signer, f), gasSent, NamedKey(Len(sessions) + 1))
    \/ \E signer \in Signers, gasSent \in BOOLEAN :
          RequestWallet(ForgedBody(signer), gasSent, NamedKey(Len(sessions) + 1))
    \/ \E signer \in Signers, gasSent \in BOOLEAN :
          RequestWallet(ReusedBody(signer), gasSent, NamedKey(Len(sessions) + 1))
    \/ \E signer \in Signers, claimed \in Users, gasSent \in BOOLEAN :
          RequestWallet(ClaimingBody(signer, claimed), gasSent, NamedKey(Len(sessions) + 1))
    \/ \E n \in 1..MaxSessions : GetStatus(TokenString(n))
    \/ \E key \in UnknownKeys : GetStatus(JsString(key))
    \/ GetStatus(Undefined)
    \/ \E n \in 1..MaxSessions : GetClaimWallet(TokenString(n))
    \/ \E key \in UnknownKeys : GetClaimWallet(JsString(key))
    \/ GetClaimWallet(Undefined)
    \/ \E d \in TimeSteps : AdvanceTime(d)
    \/ \E from \in Users, a \in Amounts : Deposit(from, a)
    \/ \E h \in Handlers : DeliverEvent(h)
    \/ \E h \in Handlers, ok \in BOOLEAN, applied \in BOOLEAN : PushReply(h, ok, applied)
    \/ \E k \in Ticks : TickStart(k)
    \/ \E k \in Ticks, ok \in BOOLEAN : PopReply(k, ok)
    \/ \E k \in Ticks : TxMine(k)
    \/ \E k \in Ticks, rep \in {"number", "bigint"} : TxReceipt(k, rep)
    \/ \E k \in Ticks, ok \in BOOLEAN, applied \in BOOLEAN : RemReply(k, ok, applied)

ApiSpec == ApiInit /\ [][ApiNext]_vars

\* ------------------------------------------------------------ wrapped key
\* Sizes of the wrapping key, the nonce and the authentication tag, in bytes.
KeyBytes == 32
IvBytes == 12
TagBytes == 16

\* The values crypto.randomBytes takes in the model: n bytes spun from a seed.
\* Seed 0 gives zero bytes throughout, every seed a zero byte in front.
RandomBytes(n, seed) == [i \in 1..n |-> (seed * (i - 1) + (seed \div 16)) % 256]
PrivateKeySeeds == {1, 77, 255}
WrapSeeds == {0, 200}
NonceSeeds == {0, 9}

HexChars == <<"0", "1", "2", "3", "4", "5", "6", "7", "8", "9",
              "a", "b", "c", "d", "e", "f">>
Base64Chars ==
    <<"A", "B", "C", "D", "E", "F", "G", "H", "I", "J", "K", "L", "M",
      "N", "O", "P", "Q", "R", "S", "T", "U", "V", "W", "X", "Y", "Z",
      "a", "b", "c", "d", "e", "f", "g", "h", "i", "j", "k", "l", "m",
      "n", "o", "p", "q", "r", "s", "t", "u", "v", "w", "x", "y", "z",
      "0", "1", "2", "3", "4", "5", "6", "7", "8", "9", "+", "/">>
IndexOf(c, alphabet) == (CHOOSE k \in 1..Len(alphabet) : alphabet[k] = c) - 1

\* buf.toString('hex'): two lower-case digits for every byte.
HexEncode(b) ==
    [k \in 1..(2 * Len(b)) |->
        IF k % 2 = 1 THEN HexChars[(b[(k + 1) \div 2] \div 16) + 1]
        ELSE HexChars[(b[(k + 1) \div 2] % 16) + 1]]

\* Buffer.from(s, 'hex'): one byte for every pair of digits.
HexDecode(s) ==
    [i \in 1..(Len(s) \div 2) |->
        IndexOf(s[2 * i - 1], HexChars) * 16 + IndexOf(s[2 * i], HexChars)]

\* buf.toString('base64'): four characters for every three bytes, the last
\* group padded with "=".
Base64Encode(b) ==
    LET n == Len(b)
        byteAt(i) == IF i <= n THEN b[i] ELSE 0
        val(g) == byteAt(3 * g + 1) * 65536 + byteAt(3 * g + 2) * 256 + byteAt(3 * g + 3)
        sextet(g, p) == CASE p = 0 -> val(g) \div 262144
                          [] p = 1 -> (val(g) \div 4096) % 64
                          [] p = 2 -> (val(g) \div 64) % 64
                          [] p = 3 -> val(g) % 64
        char(k) == LET g == (k - 1) \div 4
                       p == (k - 1) % 4
                   IN  IF p >= 2 /\ 3 * g + p > n THEN "="
                       ELSE Base64Chars[sextet(g, p) + 1]
    IN  [k \in 1..(4 * ((n + 2) \div 3)) |-> char(k)]

\* Buffer.from(s, 'base64'): six bits for every character before the padding.
Base64Decode(s) ==
    LET m == Cardinality({k \in 1..Len(s) : s[k] # "="})
        sextet(k) == IF k <= m THEN IndexOf(s[k], Base64Chars) ELSE 0
        val(g) == sextet(4 * g + 1) * 262144 + sextet(4 * g + 2) * 4096
                  + sextet(4 * g + 3) * 64 + sextet(4 * g + 4)
        byte(i) == LET g == (i - 1) \div 3
                       q == (i - 1) % 3
                   IN  CASE q = 0 -> val(g) \div 65536
                         [] q = 1 -> (val(g) \div 256) % 256
                         [] q = 2 -> val(g) % 256
    IN  [i \in 1..((m * 3) \div 4) |-> byte(i)]

\* AES-256-GCM, as far as the wrapping relies on it: a stream cipher keyed by
\* key and nonce, whose tag depends on key, nonce and ciphertext; decryption
\* under the same key and nonce inverts encryption, and final() throws when the
\* tag is not the one of key, nonce and ciphertext.
Keystream(key, iv, i) ==
    (key[((i - 1) % Len(key)) + 1] + 7 * iv[((i - 1) % Len(iv)) + 1] + i) % 256
RECURSIVE ByteSum(_)
ByteSum(b) == IF b = <<>> THEN 0 ELSE (Head(b) + ByteSum(Tail(b))) % 256
AuthTag(key, iv, ciphertext) ==
    [t \in 1..TagBytes |->
        (key[((t - 1) % Len(key)) + 1] + 3 * iv[((t - 1) % Len(iv)) + 1]
         + t * ByteSum(ciphertext)) % 256]
AesGcmEncrypt(key, iv, plaintext) ==
    LET ciphertext == [i \in 1..Len(plaintext) |->
                          (plaintext[i] + Keystream(key, iv, i)) % 256]
    IN  [ciphertext |-> ciphertext, authTag |-> AuthTag(key, iv, ciphertext)]
AesGcmDecrypt(key, iv, authTag, ciphertext) ==
    IF authTag # AuthTag(key, iv, ciphertext)
    THEN [threw |-> TRUE, plaintext |-> <<>>]
    ELSE [threw |-> FALSE,
          plaintext |-> [i \in 1..Len(ciphertext) |->
                            (ciphertext[i] + 256 - Keystream(key, iv, i)) % 256]]

\* new ethers.Wallet(privateKey).address: the address of a key, a function of
\* the key's bytes alone.
WalletAddress(privateKey) == <<"address", HexDecode(SubSeq(privateKey, 3, Len(privateKey)))>>

\* Mutant: the tag is appended after the ciphertext.
EncryptForUserTagLast(plaintext, ephemeralKey, iv) ==
    LET sealed == AesGcmEncrypt(ephemeralKey, iv, plaintext)
    IN  Base64Encode(ephemeralKey \o iv \o sealed.ciphertext \o sealed.authTag)

\* encryptForUser(plaintext) for the draws ephemeralKey and iv of randomBytes.
EncryptForUser(plaintext, ephemeralKey, iv) ==
    LET sealed == AesGcmEncrypt(ephemeralKey, iv, plaintext)
    IN  Base64Encode(ephemeralKey \o iv \o sealed.authTag \o sealed.ciphertext)

\* The private key string the enclave makes of 32 random bytes.
PrivateKeyOf(bytes) == <<"0", "x">> \o HexEncode(bytes)

\* privateKey.replace(/^0x/, '')
StripHexPrefix(s) ==
    IF Len(s) >= 2 /\ s[1] = "0" /\ s[2] = "x" THEN SubSeq(s, 3, Len(s)) ELSE s

\* generatePrivateKeyInsideTEE() for the draws of randomBytes: the key bytes,
\* the wrapping key and the nonce.  The n-th call files the key under keyRef n.
GeneratePrivateKeyInsideTEE(n, bytes, ephemeralKey, iv) ==
    [encryptedKeyForUser |->
         EncryptForUser(HexDecode(StripHexPrefix(PrivateKeyOf(bytes))), ephemeralKey, iv),
     attestationReport |-> <<"attestation", "mock-tee">>,
     newAddress |-> WalletAddress(PrivateKeyOf(bytes)),
     keyRef |-> <<"keyRef", n>>]

\* decodeEncryptedPrivateKey(encryptedKeyForUser) of the client script.
DecodeEncryptedPrivateKey(encryptedKeyForUser) ==
    LET buf == Base64Decode(encryptedKeyForUser)
    IN  IF Len(buf) < 32 + 12 + 16 + 1
        THEN [threw |-> TRUE, privateKey |-> <<>>]
        ELSE LET ephemeralKey == SubSeq(buf, 1, 32)
                 iv == SubSeq(buf, 33, 44)
                 authTag == SubSeq(buf, 45, 60)
                 ciphertext == SubSeq(buf, 61, Len(buf))
                 opened == AesGcmDecrypt(ephemeralKey, iv, authTag, ciphertext)
             IN  IF opened.threw
                 THEN [threw |-> TRUE, privateKey |-> <<>>]
                 ELSE [threw |-> FALSE,
                       privateKey |-> <<"0", "x">> \o HexEncode(opened.plaintext)]

\* The client script takes the blob of the claim-wallet answer it has received,
\* decodes it and opens a wallet with the key.
DecodeKey ==
    /\ reply.code = 200
    /\ "encryptedKeyForUser" \in DOMAIN reply.body
    /\ LET unlinkerPrivateKey == DecodeEncryptedPrivateKey(reply.body.encryptedKeyForUser)
       IN  decoded' = IF unlinkerPrivateKey.threw
                      THEN [threw |-> TRUE, privateKey |-> <<>>, address |-> <<>>,
                            claimed |-> reply.body.newAddress]
                      ELSE [threw |-> FALSE,
                            privateKey |-> unlinkerPrivateKey.privateKey,
                            address |-> WalletAddress(unlinkerPrivateKey.privateKey),
                            claimed |-> reply.body.newAddress]
    /\ UNCHANGED <<reply, lastTx, paused, nextFire, delivered>>
    /\ UNCHANGED serverVars
    /\ UNCHANGED chainVars

\* The request API with the enclave computing its keys, and the client script.
KeyInit ==
    ApiInit

KeyNext ==
    \/ \E signer \in Signers, p \in PrivateKeySeeds, w \in WrapSeeds, n \in NonceSeeds :
          RequestWallet(SignedBody(signer, AskedAmount), TRUE,
                        GeneratePrivateKeyInsideTEE(Len(sessions) + 1,
                                                    RandomBytes(KeyBytes, p),
                                                    RandomBytes(KeyBytes, w),
                                                    RandomBytes(IvBytes, n)))
    \/ \E n \in 1..MaxSessions : GetClaimWallet(TokenString(n))
    \/ DecodeKey

KeySpec == KeyInit /\ [][KeyNext]_vars

\* ------------------------------------------------------ contract called directly
\* Accounts that send transactions to EscrowPool, and the arguments they try.
MaxPoolDeposits == 2
Callers == {Owner, "0xAb"}
Recipients == {ZeroAddress, "0xEe"}
PoolAmounts == {0, 2, 3}
JobIds == {"job-a", "job-b"}

\* A transaction calling deposit(amount): it goes through or reverts.
CallDeposit(from, amount) ==
    /\ Len(events) < MaxPoolDeposits
    /\ IF DepositAccepted(amount)
       THEN Deposited(from, amount)
       ELSE UNCHANGED <<nextDepositId, poolBalance, events>>
    /\ lastTx' = [fn |-> "deposit", caller |-> from, ok |-> DepositAccepted(amount)]
    /\ UNCHANGED <<orphans, jobUsed, withdrawn>>
    /\ UNCHANGED <<reply, decoded, paused, nextFire, delivered>>
    /\ UNCHANGED serverVars

\* A transaction calling operatorWithdraw(to, amount, depositId, jobId).
CallOperatorWithdraw(caller, to, amount, depositId, jobId) ==
    /\ OperatorWithdraw([caller |-> caller, to |-> to, amount |-> amount,
                         depositId |-> depositId, jobId |-> jobId])
    /\ lastTx' = [fn |-> "operatorWithdraw", caller |-> caller,
                  ok |-> WithdrawAccepted(caller, to, amount, jobId)]
    /\ UNCHANGED <<events, orphans, nextDepositId>>
    /\ UNCHANGED <<reply, decoded, paused, nextFire, delivered>>
    /\ UNCHANGED serverVars

\* A transaction calling pause(): onlyOwner, and _pause requires whenNotPaused.
Pause(caller) ==
    /\ paused' = IF caller = Owner /\ ~paused THEN TRUE ELSE paused
    /\ lastTx' = [fn |-> "pause", caller |-> caller, ok |-> caller = Owner /\ ~paused]
    /\ UNCHANGED <<reply, decoded, nextFire, delivered>>
    /\ UNCHANGED chainVars
    /\ UNCHANGED serverVars

\* A transaction calling unpause(): onlyOwner, and _unpause requires whenPaused.
Unpause(caller) ==
    /\ paused' = IF caller = Owner /\ paused THEN FALSE ELSE paused
    /\ lastTx' = [fn |-> "unpause", caller |-> caller, ok |-> caller = Owner /\ paused]
    /\ UNCHANGED <<reply, decoded, nextFire, delivered>>
    /\ UNCHANGED chainVars
    /\ UNCHANGED serverVars

\* The contract after deployment, and accounts calling it.
ContractInit ==
    ApiInit

ContractNext ==
    \/ \E from \in Users, amount \in PoolAmounts : CallDeposit(from, amount)
    \/ \E caller \in Callers, to \in Recipients, amount \in PoolAmounts, jobId \in JobIds :
          CallOperatorWithdraw(caller, to, amount, Len(events), jobId)
    \/ \E caller \in Callers : Pause(caller)
    \/ \E caller \in Callers : Unpause(caller)

ContractSpec == ContractInit /\ [][ContractNext]_vars

\* ------------------------------------------------------------ the front end
\* mockDecryptPrivateKey(encryptedKeyForUser): the hex of the first 32 bytes of
\* the decoded blob behind "0x".
MockDecryptPrivateKey(encryptedKeyForUser) ==
    LET buf == Base64Decode(encryptedKeyForUser)
    IN  IF Len(buf) < 32 + 12 + 16 + 32
        THEN [threw |-> TRUE, privateKey |-> <<>>]
        ELSE [threw |-> FALSE,
              privateKey |-> <<"0", "x">> \o HexEncode(SubSeq(buf, 1, 32))]

\* new ethers.Wallet(privateKey) refuses the key zero.
WalletRefuses(privateKey) ==
    \A n \in 3..Len(privateKey) : privateKey[n] = "0"

\* claimUnlinkedWallet() of the front end, from the claim-wallet answer it has
\* received: the key it takes from the blob and the wallet it builds.
ClaimUnlinkedWallet ==
    /\ reply.code = 200
    /\ "encryptedKeyForUser" \in DOMAIN reply.body
    /\ LET decryptedPrivateKey == MockDecryptPrivateKey(reply.body.encryptedKeyForUser)
       IN  decoded' = IF decryptedPrivateKey.threw
                         \/ WalletRefuses(decryptedPrivateKey.privateKey)
                      THEN [threw |-> TRUE, privateKey |-> <<>>, address |-> <<>>,
                            claimed |-> reply.body.newAddress]
                      ELSE [threw |-> FALSE,
                            privateKey |-> decryptedPrivateKey.privateKey,
                            address |-> WalletAddress(decryptedPrivateKey.privateKey),
                            claimed |-> reply.body.newAddress]
    /\ UNCHANGED <<reply, lastTx, paused, nextFire, delivered>>
    /\ UNCHANGED serverVars
    /\ UNCHANGED chainVars

\* The request API with the enclave computing its keys, and the front end.
FrontInit ==
    ApiInit

FrontNext ==
    \/ \E signer \in Signers, p \in PrivateKeySeeds, w \in WrapSeeds, n \in NonceSeeds :
          RequestWallet(SignedBody(signer, AskedAmount), TRUE,
                        GeneratePrivateKeyInsideTEE(Len(sessions) + 1,
                                                    RandomBytes(KeyBytes, p),
                                                    RandomBytes(KeyBytes, w),
                                                    RandomBytes(IvBytes, n)))
    \/ \E n \in 1..MaxSessions : GetClaimWallet(TokenString(n))
    \/ ClaimUnlinkedWallet

FrontSpec == FrontInit /\ [][FrontNext]_vars

\* ---------------------------------------------------------------- claims
Rank(status) ==
    CASE status = "awaiting_deposit" -> 1
      [] status = "deposit_detected" -> 2
      [] status = "withdrawal_queued" -> 3
      [] status = "completed" -> 4
      [] status = "failed" -> 4

Tokens == 1..Len(sessions)
Jobs == 1..Len(jobObj)
JobsOf(tok) == {j \in Jobs : jobObj[j].sessionToken = tok}
InQueue(j) == \E n \in 1..Len(queue) : queue[n] = j
Submitting(k, j) == ts[k].pc = "awaitTx" /\ Head(ts[k].due) = j
Removing(k, j) == ts[k].pc = "awaitRem" /\ Head(ts[k].due) = j
WithdrawnTo(addr) == {n \in 1..Len(withdrawn) : withdrawn[n].to = addr}
WithdrawnWith(id) == {n \in 1..Len(withdrawn) : withdrawn[n].jobId = id}

\* C1: a session's status never moves to an earlier value, and a session that
\* has reached completed is never modified again.
C1_StatusOnlyForward ==
    [][\A i \in Tokens :
          /\ Rank(sessions'[i].status) >= Rank(sessions[i].status)
          /\ sessions[i].status = "completed" => sessions'[i] = sessions[i]]_vars

\* C1 witness: a withdrawal is being submitted for the job of a session that is
\* already completed.
C1_Witness ==
    \E i \in Tokens, k \in Ticks :
        /\ sessions[i].status = "completed"
        /\ ts[k].pc = "awaitTx"
        /\ jobObj[Head(ts[k].due)].sessionToken = i

\* C2: every withdrawal_queued session has exactly one job in the job table
\* and every completed session has none.
C2_JobPerQueuedSession ==
    \A i \in Tokens :
        /\ sessions[i].status = "withdrawal_queued"
              => Cardinality(JobsOf(i) \cap pendingWithdrawals) = 1
        /\ sessions[i].status = "completed"
              => JobsOf(i) \cap pendingWithdrawals = {}

\* C3: for every job at most one operatorWithdraw is ever accepted: every
\* submission for the job carries the hash of its unchanged id, and the
\* contract accepts no call whose jobId is already marked used.
C3_AtMostOneAccepted ==
    /\ [](\A j \in Jobs :
            /\ Cardinality(WithdrawnTo(jobObj[j].newAddress)) <= 1
            /\ \A k \in Ticks :
                  Submitting(k, j) => ts[k].tx.call.jobId = EthersId(Uuid(j)))
    /\ [][\A j \in Jobs :
            EthersId(Uuid(j)) \in jobUsed
               => WithdrawnWith(EthersId(Uuid(j)))' = WithdrawnWith(EthersId(Uuid(j)))]_vars

\* C3 witness: a job's withdrawal has been accepted and a later submission
\* for the same job has been refused by the contract.
C3_Witness ==
    \E k \in Ticks :
        /\ ts[k].pc = "awaitTx"
        /\ ts[k].tx.state = "reverted"
        /\ ts[k].tx.call.jobId \in jobUsed
        /\ WithdrawnWith(ts[k].tx.call.jobId) # {}

\* C4: at most one tick of the batch processor is in flight at any time.
C4_SingleTickInFlight ==
    Cardinality({k \in Ticks : ts[k].pc # "idle"}) <= 1

\* C5: no job is submitted while another submission for it awaits its
\* receipt, nor after a submission for it has succeeded.
C5_NoDoubleSubmission ==
    \A j \in Jobs :
        /\ Cardinality({k \in Ticks : Submitting(k, j)}) <= 1
        /\ j \in succeeded => \A k \in Ticks : ~Submitting(k, j)

\* C6: once a submission for a job has succeeded and the tick has moved on,
\* the job is in neither the queue nor the job table, it is not pending, and
\* its session is completed with the hash of that submission.
C6_SuccessRemovesJob ==
    \A j \in succeeded :
        (\A k \in Ticks : ~Removing(k, j))
           => /\ j \notin pendingWithdrawals
              /\ ~InQueue(j)
              /\ jobObj[j].status = "completed"
              /\ sessions[jobObj[j].sessionToken].status = "completed"
              /\ sessions[jobObj[j].sessionToken].withdrawTxHash # Null

\* A step in which tick k leaves the submission of job j through the catch block.
SubmissionFails(k, j) ==
    /\ Submitting(k, j)
    /\ ts'[k].due = Tail(ts[k].due)

\* C7: a failed submission leaves the job in the table and the queue with status
\* pending and executeAfter between 30 and 120 whole seconds after the failure,
\* its session withdrawal_queued without a withdrawal hash, and changes no
\* other job or session.
C7_FailureKeepsJobPending ==
    [][\A k \in Ticks, j \in Jobs :
          SubmissionFails(k, j)
             => /\ j \in pendingWithdrawals'
                /\ InQueue(j)'
                /\ jobObj'[j].status = "pending"
                /\ \E secs \in 30..120 : jobObj'[j].executeAfter = Now + secs * 1000
                /\ sessions'[jobObj[j].sessionToken].status = "withdrawal_queued"
                /\ sessions'[jobObj[j].sessionToken].withdrawTxHash = Null
                /\ sessions' = sessions
                /\ \A o \in Jobs \ {j} : jobObj'[o] = jobObj[o]
                /\ pendingWithdrawals' = pendingWithdrawals
                /\ queue' = queue]_vars

\* The deposit of session i was matched and the contract has accepted the
\* operatorWithdraw of its job.
WithdrawalAccepted(i) ==
    /\ i \in Tokens
    /\ \E j \in JobsOf(i) : EthersId(jobObj[j].id) \in jobUsed

SessionCompleted(i) ==
    /\ i \in Tokens
    /\ sessions[i].status = "completed"
    /\ sessions[i].depositTxHash # Null
    /\ sessions[i].withdrawTxHash # Null

\* C8: under fair scheduling, a matched session whose withdrawal the chain
\* accepts eventually reaches completed with both hashes set.
C8_EventuallyCompleted ==
    \A i \in 1..MaxSessions : WithdrawalAccepted(i) ~> SessionCompleted(i)

\* C9: when a job's session is completed by the processor, the contract has
\* accepted exactly one operatorWithdraw with the job's bytes32 id, sent to
\* job.newAddress for job.normalizedAmount, and the id is marked used.
C9_CompletedWasWithdrawn ==
    \A j \in succeeded :
        sessions[jobObj[j].sessionToken].status = "completed"
           => /\ EthersId(jobObj[j].id) \in jobUsed
              /\ Cardinality(WithdrawnWith(EthersId(jobObj[j].id))) = 1
              /\ \A n \in WithdrawnWith(EthersId(jobObj[j].id)) :
                    /\ withdrawn[n].to = jobObj[j].newAddress
                    /\ withdrawn[n].amount = jobObj[j].normalizedAmount

\* C9 witness: a session is completed while the contract has refused a second
\* call with its job's id.
C9_Witness ==
    \E j \in succeeded, k \in Ticks :
        /\ sessions[jobObj[j].sessionToken].status = "completed"
        /\ Submitting(k, j)
        /\ ts[k].tx.state = "reverted"

\* A step in which tick k receives the receipt of its mined transaction.
ReceiptArrives(k) ==
    /\ ts[k].pc = "awaitTx"
    /\ ts[k].tx.state # "sent"
    /\ ts'[k] # ts[k]

\* C10: the chain client returns the transaction hash exactly when the mined
\* receipt has success status, and throws exactly when it has not.
C10_ReceiptReportedFaithfully ==
    [][\A k \in Ticks :
          ReceiptArrives(k)
             => (ts'[k].pc = "awaitRem" <=> ts[k].tx.state = "accepted")]_vars

\* ------------------------------------------------ claims on the deposit matcher
Abs(x) == IF x < 0 THEN -x ELSE x
Max(a, b) == IF a >= b THEN a ELSE b
Min(S) == CHOOSE x \in S : \A y \in S : x <= y

\* The reference rule: |a - E| <= max(1, floor(E / 10000)).
WithinTolerance(a, E) == Abs(a - E) <= Max(1, E \div 10000)

\* Session s is awaiting a deposit from the sender of ev of an amount within
\* tolerance of ev's amount.
Awaits(s, ev) ==
    /\ s.status = "awaiting_deposit"
    /\ s.userAddress = ToLowerCase(ev.from)
    /\ ~BigIntOf(s.expectedAmount).threw
    /\ WithinTolerance(ev.amount, BigIntOf(s.expectedAmount).v)

\* A step in which log e is handed to the listener's callback.
Handed(e) ==
    /\ Len(delivered') = Len(delivered) + 1
    /\ delivered'[Len(delivered')].log = e

\* Log e has been handed to the listener before.
HandedBefore(e) == \E n \in 1..Len(delivered) : delivered[n].log = e

\* The number of sessions stored when log e was first handed over.
FirstSeen(e) == delivered[Min({n \in 1..Len(delivered) : delivered[n].log = e})].seen

\* A step in which callback h returns, with the log it was handling and the
\* number of sessions stored when it started.
HandlingEnds(h) ==
    /\ hs'[h].pc = "idle"
    /\ \/ hs[h].pc = "awaitPush"
       \/ /\ hs[h].pc = "idle"
          /\ \A g \in Handlers : g < h => hs[g].pc # "idle"
          /\ Len(delivered') = Len(delivered) + 1
HandledLog(h) ==
    IF hs[h].pc = "awaitPush" THEN hs[h].ev ELSE delivered'[Len(delivered')].log
HandledSeen(h) ==
    IF hs[h].pc = "awaitPush" THEN hs[h].snap ELSE delivered'[Len(delivered')].seen

\* C11: when the callback for a Deposited event returns, every session that was
\* stored when it started and awaited that deposit (same lower-cased sender,
\* amount within tolerance) has been advanced and has a job of its own, also
\* when enqueueing an earlier matching session raised an error.
C11_EveryMatchAdvanced ==
    [][\A h \in Handlers :
          HandlingEnds(h)
             => \A i \in 1..HandledSeen(h) :
                   (/\ sessions[i].userAddress = ToLowerCase(events[HandledLog(h)].from)
                    /\ ~BigIntOf(sessions[i].expectedAmount).threw
                    /\ WithinTolerance(events[HandledLog(h)].amount,
                                       BigIntOf(sessions[i].expectedAmount).v))
                      => /\ sessions'[i].status # "awaiting_deposit"
                         /\ \E j \in 1..Len(jobObj') : jobObj'[j].sessionToken = i]_vars

\* C12: handing over a Deposited event that no session awaits (no
\* awaiting_deposit session with the same lower-cased sender and an amount
\* within tolerance) leaves every session, the job table and the queue unchanged.
C12_NoMatchChangesNothing ==
    [][\A e \in 1..Len(events) :
          (Handed(e) /\ \A i \in Tokens : ~Awaits(sessions[i], events[e]))
             => UNCHANGED <<sessions, jobObj, pendingWithdrawals, queue>>]_vars

\* C12 witness: a log was handed over while a session of the same sender was
\* awaiting an amount outside the tolerance, and nothing was matched.
C12_Witness ==
    \E n \in 1..Len(delivered), i \in Tokens :
        /\ i <= delivered[n].seen
        /\ sessions[i].status = "awaiting_deposit"
        /\ sessions[i].userAddress = ToLowerCase(events[delivered[n].log].from)
        /\ ~BigIntOf(sessions[i].expectedAmount).threw
        /\ ~WithinTolerance(events[delivered[n].log].amount,
                            BigIntOf(sessions[i].expectedAmount).v)
        /\ jobObj = <<>>

\* C13: the matcher's predicate is the reference rule: when a log is handed
\* over, the first awaiting session of its sender with |a - E| <= max(1,
\* floor(E / 10000)) is matched, and no session outside the rule is touched.
C13_MatchIsReferenceRule ==
    [][\A e \in 1..Len(events) :
          Handed(e)
             => LET hits == {i \in Tokens : Awaits(sessions[i], events[e])}
                IN  /\ \A i \in Tokens : sessions'[i] # sessions[i] => i \in hits
                    /\ hits # {}
                          => /\ sessions'[Min(hits)].status = "deposit_detected"
                             /\ sessions'[Min(hits)].depositTxHash = events[e].txHash]_vars

\* C13 witness: a deposit whose distance from the expected amount is exactly
\* the tolerance floor(E / 10000) has been matched.
C13_Witness ==
    \E i \in Tokens, e \in 1..Len(events) :
        /\ sessions[i].depositTxHash = events[e].txHash
        /\ BigIntOf(sessions[i].expectedAmount).v >= 10000
        /\ Abs(events[e].amount - BigIntOf(sessions[i].expectedAmount).v)
              = BigIntOf(sessions[i].expectedAmount).v \div 10000

\* C14: handing over a log again, after its first handling has returned,
\* changes no session that was stored at the first handling and creates no
\* job for one.
C14_ReplayIsIdempotent ==
    [][\A e \in 1..Len(events) :
          (Handed(e) /\ HandedBefore(e) /\ \A h \in Handlers : hs[h].pc = "idle")
             => \A i \in 1..FirstSeen(e) :
                   /\ sessions'[i] = sessions[i]
                   /\ {j \in 1..Len(jobObj') : jobObj'[j].sessionToken = i} = JobsOf(i)]_vars

\* C15: a session that is still awaiting its deposit has no job, and every
\* other session has exactly one, whatever the interleaving of the callbacks.
C15_OneJobPerSession ==
    \A i \in Tokens :
        Cardinality(JobsOf(i)) = IF sessions[i].status = "awaiting_deposit" THEN 0 ELSE 1

\* C15 witness: two callbacks handling the same log are suspended at once,
\* each in the enqueueing of another session.
C15_Witness ==
    \E g \in Handlers, h \in Handlers :
        /\ g # h
        /\ hs[g].pc = "awaitPush"
        /\ hs[h].pc = "awaitPush"
        /\ hs[g].ev = hs[h].ev
        /\ hs[g].idx # hs[h].idx

\* The log whose transaction hash session i carries.
MatchedLog(i) == CHOOSE e \in 1..Len(events) : events[e].txHash = sessions[i].depositTxHash

\* C16: a matched session carries the depositId of the event that matched it,
\* its job carries the same depositId, and so does every operatorWithdraw
\* submitted for the job.
C16_DepositIdCarried ==
    \A i \in Tokens :
        sessions[i].depositTxHash # Null
           => /\ "depositId" \in DOMAIN sessions[i]
              /\ sessions[i].depositId = events[MatchedLog(i)].depositId
              /\ \A j \in JobsOf(i) :
                    /\ jobObj[j].depositId # Null
                    /\ jobObj[j].depositId = events[MatchedLog(i)].depositId
                    /\ \A k \in Ticks :
                          Submitting(k, j)
                             => ts[k].tx.call.depositId = events[MatchedLog(i)].depositId

\* ------------------------------------------------------- claims on the engine
\* q is the quotient x / d truncated toward zero.
IsTruncatedQuotient(q, x, d) ==
    /\ Abs(q) * d <= Abs(x)
    /\ Abs(x) < (Abs(q) + 1) * d
    /\ q # 0 => (q > 0 <=> x > 0)

ExpectedOf(j) == BigIntOf(sessions[jobObj[j].sessionToken].expectedAmount).v

\* C17: every job's normalizedAmount is E + trunc(E * ppm / 1000000) for an
\* integer ppm in [-30, 40], E being its session's expected amount, and lies
\* between E - E*30/1e6 and E + E*40/1e6.
C17_JitterWithinPpm ==
    \A j \in Jobs :
        /\ \E ppm \in -30..40 :
              IsTruncatedQuotient(jobObj[j].normalizedAmount - ExpectedOf(j),
                                  ExpectedOf(j) * ppm, 1000000)
        /\ (ExpectedOf(j) - jobObj[j].normalizedAmount) * 1000000 <= ExpectedOf(j) * 30
        /\ (jobObj[j].normalizedAmount - ExpectedOf(j)) * 1000000 <= ExpectedOf(j) * 40

\* C17 witness: a job whose amount was lowered, by a jitter that is no whole
\* number of units (the division dropped a remainder).
C17_Witness ==
    \E j \in Jobs :
        /\ jobObj[j].normalizedAmount < ExpectedOf(j)
        /\ \A ppm \in -30..40 :
              ExpectedOf(j) * ppm # (jobObj[j].normalizedAmount - ExpectedOf(j)) * 1000000

\* C18: every job in the job table has normalizedAmount >= 1.
C18_NoDustJob ==
    \A j \in pendingWithdrawals : jobObj[j].normalizedAmount >= 1

\* C19: every stored session's expectedAmount is the decimal form of a
\* positive integer.
C19_ExpectedAmountPositive ==
    \A i \in Tokens :
        /\ ~BigIntOf(sessions[i].expectedAmount).threw
        /\ BigIntOf(sessions[i].expectedAmount).v > 0
        /\ sessions[i].expectedAmount = ToDecimal(BigIntOf(sessions[i].expectedAmount).v)

C21_SubmitsOnlyEligible ==
    [][\A k \in Ticks, j \in Jobs :
          (Submitting(k, j)' /\ ~Submitting(k, j))
             => /\ InQueue(j)'
                /\ j \in pendingWithdrawals'
                /\ jobObj'[j].status = "pending"
                /\ jobObj'[j].executeAfter <= ts'[k].now]_vars

\* The session a creation step has added.
Created == sessions'[Len(sessions')]
NextKey == NamedKey(Len(sessions) + 1)

C23_BadRequestChangesNothing ==
    [][\A signer \in Signers, claimed \in Users, gasSent \in BOOLEAN :
          /\ \A f \in RequiredFields :
                RequestWallet(MissingBody(signer, f), gasSent, NextKey)
                   => /\ reply'.code = 400
                      /\ reply'.gas = "none"
                      /\ UNCHANGED <<sessions, jobObj, pendingWithdrawals, queue>>
          /\ RequestWallet(ForgedBody(signer), gasSent, NextKey)
                => /\ reply'.code = 400
                   /\ reply'.gas = "none"
                   /\ UNCHANGED <<sessions, jobObj, pendingWithdrawals, queue>>
          /\ RequestWallet(ClaimingBody(signer, claimed), gasSent, NextKey)
                => Created.userAddress = ToLowerCase(signer)
          /\ RequestWallet(SignedBody(signer, AskedAmount), gasSent, NextKey)
                => Created.userAddress = ToLowerCase(signer)]_vars

\* C23 witness: with a session stored, a request was refused for its signature.
C23_Witness ==
    /\ reply.code = 400
    /\ reply.body.error = "Invalid signature"
    /\ \E i \in Tokens : sessions[i].userAddress = "0xab"

\* C24: when the gas pre-fund fails, the request is still answered 201 with
\* the token and the address of the session, which is stored awaiting_deposit
\* and can be matched by its deposit, queried and claimed.
C24_GasFailureNotPropagated ==
    [][\A signer \in Signers :
          RequestWallet(SignedBody(signer, AskedAmount), FALSE, NextKey)
             => /\ reply'.code = 201
                /\ DOMAIN reply'.body = {"sessionToken", "newAddress"}
                /\ reply'.body.sessionToken = Created.sessionToken
                /\ reply'.body.newAddress = Created.newAddress
                /\ Created.status = "awaiting_deposit"
                /\ Matches(Created, [from |-> signer, amount |-> 100000])
                /\ StatusReply(sessions', TokenString(Created.sessionToken)).code = 200
                /\ ClaimReply(sessions', TokenString(Created.sessionToken)).code = 200]_vars

\* C24 witness: the last request was answered 201 although its pre-fund failed,
\* and its session is stored.
C24_Witness ==
    /\ reply.gas = "failed"
    /\ reply.code = 201
    /\ sessions[reply.body.sessionToken].status = "awaiting_deposit"

\* C25: the answer of the status endpoint has neither an encryptedKeyForUser
\* nor a keyRef, and is the same for a session that differs in its wrapped key
\* only.
C25_StatusHidesKey ==
    [][\A n \in 1..MaxSessions :
          GetStatus(TokenString(n))
             => /\ "encryptedKeyForUser" \notin DOMAIN reply'.body
                /\ "keyRef" \notin DOMAIN reply'.body
                /\ n \in Tokens
                      => \A b \in {0, n + 1} :
                            StatusReply([sessions EXCEPT ![n].encryptedKeyForUser = <<"blob", b>>],
                                        TokenString(n)) = reply']_vars

\* C25 witness: the status of a completed session has been returned.
C25_Witness ==
    /\ reply.code = 200
    /\ "status" \in DOMAIN reply.body
    /\ reply.body.status = "completed"

\* C26: status and claim-wallet change no session, job or queue entry; as long
\* as no step changes a session their answers for it stay the same; claim-wallet
\* answers the three wallet fields for every stored session, and 404 for a token
\* no session has.
C26_ReadsArePure ==
    [][/\ \A n \in 1..MaxSessions :
             GetStatus(TokenString(n)) \/ GetClaimWallet(TokenString(n))
                => UNCHANGED <<sessions, jobObj, pendingWithdrawals, queue>>
       /\ \A n \in Tokens :
             sessions'[n] = sessions[n]
                => /\ StatusReply(sessions', TokenString(n)) = StatusReply(sessions, TokenString(n))
                   /\ ClaimReply(sessions', TokenString(n)) = ClaimReply(sessions, TokenString(n))
       /\ \A n \in Tokens :
             GetClaimWallet(TokenString(n))
                => /\ reply'.code = 200
                   /\ reply'.body = [newAddress |-> sessions[n].newAddress,
                                     encryptedKeyForUser |-> sessions[n].encryptedKeyForUser,
                                     attestationReport |-> sessions[n].attestationReport]
       /\ \A key \in UnknownKeys :
             GetClaimWallet(JsString(key)) \/ GetStatus(JsString(key))
                => /\ reply'.code = 404
                   /\ UNCHANGED <<sessions, jobObj, pendingWithdrawals, queue>>]_vars

\* C27: newAddress, encryptedKeyForUser, attestationReport, userAddress and
\* expectedAmount of a session are never changed by any step.
C27_CreationFieldsKept ==
    [][\A i \in Tokens :
          /\ sessions'[i].newAddress = sessions[i].newAddress
          /\ sessions'[i].encryptedKeyForUser = sessions[i].encryptedKeyForUser
          /\ sessions'[i].attestationReport = sessions[i].attestationReport
          /\ sessions'[i].userAddress = sessions[i].userAddress
          /\ sessions'[i].expectedAmount = sessions[i].expectedAmount]_vars

\* C27 witness: a session has gone through matcher, engine and processor, and
\* its wallet has been claimed.
C27_Witness ==
    /\ \E i \in Tokens :
          /\ sessions[i].status = "completed"
          /\ sessions[i].withdrawTxHash # Null
    /\ reply.code = 200
    /\ "encryptedKeyForUser" \in DOMAIN reply.body

\* C28: for every key the enclave issues, the blob decodes to wrapping key (32
\* bytes), nonce (12), tag (16) and ciphertext, decrypting the ciphertext under
\* that key and nonce gives the private key that was generated, and the address
\* of that private key is the newAddress issued with the blob; so the key a
\* client decodes from a claimed blob opens the claimed address.
C28_WrappedKeyRoundTrip ==
    /\ \A p \in PrivateKeySeeds, w \in WrapSeeds, n \in NonceSeeds :
          LET issued == GeneratePrivateKeyInsideTEE(1, RandomBytes(KeyBytes, p),
                                                    RandomBytes(KeyBytes, w),
                                                    RandomBytes(IvBytes, n))
              buf == Base64Decode(issued.encryptedKeyForUser)
              opened == DecodeEncryptedPrivateKey(issued.encryptedKeyForUser)
          IN  /\ SubSeq(buf, 1, 32) = RandomBytes(KeyBytes, w)
              /\ SubSeq(buf, 33, 44) = RandomBytes(IvBytes, n)
              /\ Len(buf) = 32 + 12 + 16 + KeyBytes
              /\ ~opened.threw
              /\ opened.privateKey = PrivateKeyOf(RandomBytes(KeyBytes, p))
              /\ WalletAddress(opened.privateKey) = issued.newAddress
    /\ \A i \in Tokens :
          LET opened == DecodeEncryptedPrivateKey(sessions[i].encryptedKeyForUser)
          IN  /\ ~opened.threw
              /\ WalletAddress(opened.privateKey) = sessions[i].newAddress
    /\ decoded # NoKey => ~decoded.threw /\ decoded.address = decoded.claimed

\* C28 witness: the client has decoded the key of the second session, whose
\* private key starts with a zero byte, and it opens the address it claimed.
C28_Witness ==
    /\ Len(sessions) = 2
    /\ ~decoded.threw
    /\ decoded.privateKey # <<>>
    /\ decoded.privateKey[3] = "0"
    /\ decoded.privateKey[4] = "0"
    /\ decoded.address = sessions[2].newAddress
    /\ sessions[2].newAddress # sessions[1].newAddress

\* What deposit and operatorWithdraw act on: the deposits made, nextDepositId,
\* jobUsed and the token balances (the pool's, and through the logs of deposits
\* and withdrawals every account's).
PoolState == <<events, nextDepositId, jobUsed, poolBalance, withdrawn>>

\* C29: an operatorWithdraw whose caller is not the owner, whose recipient is
\* the zero address, whose amount is zero or exceeds the pool's balance is
\* refused and leaves jobUsed, the balances and nextDepositId unchanged; the
\* pool's balance is never negative and goes down only by an accepted
\* operatorWithdraw of the owner.
C29_WithdrawRefusals ==
    [][/\ \A caller \in Callers, to \in Recipients, amount \in PoolAmounts, jobId \in JobIds :
             (/\ CallOperatorWithdraw(caller, to, amount, Len(events), jobId)
              /\ \/ caller # Owner
                 \/ to = ZeroAddress
                 \/ amount = 0
                 \/ amount > poolBalance)
                => /\ ~lastTx'.ok
                   /\ UNCHANGED PoolState
       /\ poolBalance' >= 0
       /\ poolBalance' < poolBalance
             => /\ lastTx'.fn = "operatorWithdraw"
                /\ lastTx'.caller = Owner
                /\ lastTx'.ok]_vars

\* C29 witness: with funds in the pool and a withdrawal made, an
\* operatorWithdraw of an account that is not the owner has been refused.
C29_Witness ==
    /\ lastTx.fn = "operatorWithdraw"
    /\ lastTx.caller # Owner
    /\ ~lastTx.ok
    /\ poolBalance > 0
    /\ withdrawn # <<>>

\* C30: while the contract is paused every deposit and every operatorWithdraw
\* reverts and leaves deposits, nextDepositId, jobUsed and the balances
\* unchanged; only a transaction of the owner pauses or unpauses; and in a
\* contract that is not paused, so after an unpause, a deposit and an
\* operatorWithdraw with valid arguments go through.
C30_PauseStopsBoth ==
    [][/\ \A from \in Users, amount \in PoolAmounts :
             CallDeposit(from, amount)
                => IF paused THEN ~lastTx'.ok /\ UNCHANGED PoolState
                   ELSE amount > 0 => lastTx'.ok /\ poolBalance' = poolBalance + amount
       /\ \A caller \in Callers, to \in Recipients, amount \in PoolAmounts, jobId \in JobIds :
             CallOperatorWithdraw(caller, to, amount, Len(events), jobId)
                => IF paused THEN ~lastTx'.ok /\ UNCHANGED PoolState
                   ELSE (/\ caller = Owner
                         /\ to # ZeroAddress
                         /\ amount > 0
                         /\ amount <= poolBalance
                         /\ jobId \notin jobUsed)
                           => lastTx'.ok /\ poolBalance' = poolBalance - amount
       /\ paused' # paused
             => /\ lastTx'.fn \in {"pause", "unpause"}
                /\ lastTx'.caller = Owner
       /\ \A caller \in Callers \ {Owner} :
             Pause(caller) \/ Unpause(caller) => paused' = paused /\ ~lastTx'.ok
       /\ Unpause(Owner) /\ paused => ~paused']_vars

\* C30 witness: with funds in the pool, an operatorWithdraw of the owner has
\* been reverted because the contract is paused.
C30_Witness ==
    /\ paused
    /\ lastTx.fn = "operatorWithdraw"
    /\ lastTx.caller = Owner
    /\ ~lastTx.ok
    /\ poolBalance > 0
    /\ jobUsed = {}

\* C31: the n-th accepted deposit gets depositId n, is recorded with its
\* depositor and amount under that id, and adds its amount to the pool;
\* nextDepositId never goes down, no id is given twice, and a deposit that
\* reverts takes no id.
C31_DepositIdsSequential ==
    [][/\ \A from \in Users, amount \in PoolAmounts :
             CallDeposit(from, amount)
                => IF lastTx'.ok
                   THEN /\ Len(events') = Len(events) + 1
                        /\ SubSeq(events', 1, Len(events)) = events
                        /\ events'[Len(events')].depositId = Len(events')
                        /\ events'[Len(events')].from = from
                        /\ events'[Len(events')].amount = amount
                        /\ poolBalance' = poolBalance + amount
                   ELSE UNCHANGED <<events, nextDepositId, poolBalance>>
       /\ nextDepositId' >= nextDepositId
       /\ nextDepositId' = Len(events') + 1
       /\ \A m \in 1..Len(events'), n \in 1..Len(events') :
             events'[m].depositId = events'[n].depositId => m = n]_vars

\* C31 witness: after two deposits of different accounts the second has id 2.
C31_Witness ==
    /\ Len(events) = 2
    /\ events[1].from # events[2].from
    /\ events[1].depositId = 1
    /\ events[2].depositId = 2
    /\ nextDepositId = 3

\* The ticks that have sent an operator transaction and await its receipt.
AwaitingReceipt == {k \in Ticks : ts[k].pc = "awaitTx"}

\* C32: at most one transaction signed by the operator account awaits its
\* confirmation at any time.
C32_OneOperatorTxPending ==
    Cardinality(AwaitingReceipt) <= 1

\* The jobs a tick's scan finds eligible: queued, in the table, pending, due.
EligibleAt(k) ==
    {j \in Jobs : /\ InQueue(j)
                  /\ j \in pendingWithdrawals
                  /\ jobObj[j].status = "pending"
                  /\ jobObj[j].executeAfter <= ts[k].now}

\* Every sequence that holds each element of S exactly once.
Orders(S) ==
    {p \in [1..Cardinality(S) -> S] : \A x \in S : \E n \in 1..Cardinality(S) : p[n] = x}

\* C33: the list a tick submits is a shuffle of the eligible jobs: it holds
\* every eligible job exactly once, every order of the eligible jobs can be
\* drawn, and the tick then submits the list job by job without skipping one.
C33_SubmissionOrderIsShuffle ==
    [][\A k \in Ticks :
          /\ PopReply(k, TRUE)
                => /\ ts'[k].due \in Orders(EligibleAt(k))
                   /\ Orders(EligibleAt(k)) \subseteq Shuffles(DueJobs(queue, ts[k].now))
                   /\ ts'[k].due # <<>> => ts'[k].pc = "awaitTx"
          /\ (ts[k].pc \in {"awaitTx", "awaitRem"} /\ ts'[k].due # ts[k].due)
                => /\ ts'[k].due = Tail(ts[k].due)
                   /\ ts'[k].due # <<>> => ts'[k].pc = "awaitTx"]_vars

\* C33 witness: a tick submits the job created later before the earlier one.
C33_Witness ==
    \E k \in Ticks : /\ ts[k].pc = "awaitTx"
                     /\ ts[k].due = <<2, 1>>
                     /\ Submitting(k, 2)

\* Tick k ends its work on the job at the head of its list with a failure.
JobFails(k) ==
    \/ \E lost \in BOOLEAN : TxError(k, lost)
    \/ \E rep \in {"number", "bigint"} :
          TxReceipt(k, rep) /\ ReceiptRejected(ReceiptStatus(ts[k].tx.state, rep))
    \/ \E applied \in BOOLEAN : RemReply(k, FALSE, applied)

\* Tick k takes a step of its loop body for the job at the head of its list.
JobStep(k) ==
    \/ JobFails(k)
    \/ \E rep \in {"number", "bigint"} : TxReceipt(k, rep)
    \/ \E applied \in BOOLEAN : RemReply(k, TRUE, applied)

\* C34: a failure of one job does not end the tick, the next job of the
\* tick's list is submitted in the same tick, and a step for one job leaves
\* every other job's status and executeAfter as they were.
C34_FailuresIsolated ==
    [][\A k \in Ticks :
          /\ JobFails(k)
                => /\ jobObj'[Head(ts[k].due)].status = "pending"
                   /\ Tail(ts[k].due) # <<>>
                         => /\ ts'[k].pc = "awaitTx"
                            /\ ts'[k].due = Tail(ts[k].due)
                            /\ ts'[k].tx.state = "sent"
                            /\ ts'[k].tx.call.job = jobObj[Head(Tail(ts[k].due))].id
          /\ JobStep(k)
                => \A j \in Jobs \ {Head(ts[k].due)} :
                      /\ jobObj'[j].status = jobObj[j].status
                      /\ jobObj'[j].executeAfter = jobObj[j].executeAfter]_vars

\* C34 witness: job 1 has just failed and been put off, and the same tick
\* is submitting job 2.
C34_Witness ==
    \E k \in Ticks : /\ ts[k].pc = "awaitTx"
                     /\ ts[k].now = Now
                     /\ ts[k].due = <<2>>
                     /\ jobObj[1].status = "pending"
                     /\ jobObj[1].executeAfter = Now + randomInt(30, 120, 0) * 1000
                     /\ jobObj[2].status = "pending"
                     /\ jobObj[2].executeAfter <= Now

\* C35: a session has a depositTxHash exactly when its status is past
\* awaiting_deposit, and a withdrawTxHash exactly when its status is completed.
C35_HashesAgreeWithStatus ==
    \A i \in Tokens :
        /\ (sessions[i].depositTxHash # Null) <=> (sessions[i].status # "awaiting_deposit")
        /\ (sessions[i].withdrawTxHash # Null) <=> (sessions[i].status = "completed")

\* C35 witness: one session is completed with both hashes while another has
\* its deposit hash only.
C35_Witness ==
    \E i \in Tokens, n \in Tokens :
        /\ sessions[i].status = "completed"
        /\ sessions[i].depositTxHash # Null
        /\ sessions[i].withdrawTxHash # Null
        /\ sessions[n].status \in {"deposit_detected", "withdrawal_queued"}
        /\ sessions[n].depositTxHash # Null
        /\ sessions[n].withdrawTxHash = Null

\* C39: the key the front end takes from a claimed blob is the key the
\* enclave generated, so the wallet it builds has the address newAddress of
\* the claim-wallet answer.
C39_ClaimRecoversKey ==
    /\ \A i \in Tokens :
          LET opened == MockDecryptPrivateKey(sessions[i].encryptedKeyForUser)
          IN  /\ ~opened.threw
              /\ WalletAddress(opened.privateKey) = sessions[i].newAddress
    /\ decoded # NoKey => ~decoded.threw /\ decoded.address = decoded.claimed

\* No Redis command that names job j is waiting for its answer.
NoCommandFor(j) ==
    \A n \in 1..Len(redisQ) : redisQ[n].arg # j

\* C36: the job table and the queue agree: every job of the table has its id
\* in the queue exactly once (as soon as no queue command for it is under
\* way), and every id in the queue is the id of a job of the table.
C36_TableAndQueueAgree ==
    /\ \A j \in pendingWithdrawals :
          NoCommandFor(j) => Cardinality({n \in 1..Len(queue) : queue[n] = j}) = 1
    /\ \A n \in 1..Len(queue) : queue[n] \in pendingWithdrawals

\* C37: every session the matcher has set to deposit_detected becomes
\* withdrawal_queued with its job in the queue.
C37_DetectedGetsQueued ==
    \A i \in 1..MaxSessions :
        (i \in Tokens /\ sessions[i].status = "deposit_detected")
           ~> (/\ i \in Tokens
               /\ sessions[i].status = "withdrawal_queued"
               /\ \E j \in JobsOf(i) : InQueue(j))

\* The statuses a session of the server takes.
SessionStatuses == {"awaiting_deposit", "deposit_detected", "withdrawal_queued", "completed"}

\* C38: no session ever has a status outside awaiting_deposit,
\* deposit_detected, withdrawal_queued and completed; a failed attempt never
\* gives a job up: the job stays in the table, pending, with its id still in
\* the queue if the attempt was refused or threw, and due again within 120 s,
\* and every session keeps its status, so a withdrawal_queued session whose
\* job cannot succeed stays withdrawal_queued.
C38_NeverFailed ==
    [][/\ \A i \in 1..Len(sessions') : sessions'[i].status \in SessionStatuses
       /\ \A k \in Ticks :
             JobFails(k)
                => /\ sessions' = sessions
                   /\ Head(ts[k].due) \in pendingWithdrawals
                         => Head(ts[k].due) \in pendingWithdrawals'
                   /\ jobObj'[Head(ts[k].due)].status = "pending"
                   /\ jobObj'[Head(ts[k].due)].executeAfter >= Now + 30 * 1000
                   /\ jobObj'[Head(ts[k].due)].executeAfter <= Now + 120 * 1000
                   /\ (ts[k].pc = "awaitTx" /\ InQueue(Head(ts[k].due)))
                         => \E n \in 1..Len(queue') : queue'[n] = Head(ts[k].due)]_vars

\* C38 witness: a job whose withdrawal the contract has already paid, and
\* therefore refuses from now on, has been submitted again and refused, and
\* its session is still withdrawal_queued.
C38_Witness ==
    \E k \in Ticks :
        /\ ts[k].pc = "awaitTx"
        /\ ts[k].tx.state = "reverted"
        /\ ts[k].tx.call.jobId \in jobUsed
        /\ jobObj[Head(ts[k].due)].status = "pending"
        /\ sessions[jobObj[Head(ts[k].due)].sessionToken].status = "withdrawal_queued"

====
